---- MODULE Spec2Model ----
(***************************************************************************)
(* Interview orchestrator, session manager, memory agent and session       *)
(* store of the education platform, with the HTTP handlers of              *)
(* app/api/interview.py as the operations.  A request is a coroutine: it   *)
(* runs atomically between two awaits of an external (LLM) call, and       *)
(* several requests may be suspended at the same time.                     *)
(***************************************************************************)
EXTENDS Integers, Sequences, FiniteSets, TLC

VARIABLES
    orchestrators,   \* heap of InterviewOrchestrator objects, index = reference
    sessions,        \* InterviewSessionStore._sessions : session id -> reference
    reports,         \* InterviewSessionStore._reports  : session id -> FinalReport
    tasks,           \* request coroutines, each idle or suspended at an await
    last_response,   \* the HTTP response that the latest step sent, if it sent one
    generate_calls,  \* per session id, calls made to report_generator.generate
    used,            \* how much of each bound the run has consumed
    probe            \* last direct call of a pure function and its result

vars == <<orchestrators, sessions, reports, tasks, last_response,
          generate_calls, used, probe>>

(***************************************************************************)
(* Bounds                                                                  *)
(***************************************************************************)
MaxSessions == 2     \* sessions the store is followed for (SpecStore)
MaxTasks == 1        \* requests in flight together; one more in SpecOverlap
MaxSubmits == 10     \* POST /answer requests that enter the pipeline
MaxParsed == 1       \* leading LLM replies that may parse to a JSON object
MaxErrors == 1       \* external calls that raise
MaxReportCalls == 2  \* calls of report_generator.generate per session
MaxCount == 7        \* largest questions_in_state passed to a direct call
MaxTokens == 4       \* pieces of a reply text passed to a direct call
MaxScore == 7        \* largest magnitude of a number in a reply of a direct call
MaxUpdates == 4      \* update_simple calls in a row on one memory (SpecMemory)
MaxItems == 6        \* scored opportunities passed to a direct call of rank

(***************************************************************************)
(* app/models/interview_schemas.py, app/graph/interview_state.py           *)
(***************************************************************************)
STATE_ORDER ==
    <<"INTRO", "WARMUP", "CORE_QUESTIONS", "PRESSURE_ROUND",
      "COMMUNICATION_TEST", "CLOSING", "FEEDBACK">>

InterviewState == {STATE_ORDER[i] : i \in 1..Len(STATE_ORDER)}

STATE_QUESTION_LIMITS ==
    [s \in InterviewState |->
        CASE s = "INTRO" -> 1
          [] s = "WARMUP" -> 1
          [] s = "CORE_QUESTIONS" -> 3
          [] s = "PRESSURE_ROUND" -> 2
          [] s = "COMMUNICATION_TEST" -> 1
          [] s = "CLOSING" -> 1
          [] s = "FEEDBACK" -> 0]

\* STATE_ORDER.index(state)
StateIndex(state) == CHOOSE i \in 1..Len(STATE_ORDER) : STATE_ORDER[i] = state

\* get_next_state with the index advanced by two
get_next_state_skips(current_state) ==
    LET current_index == StateIndex(current_state)
    IN  IF current_index + 1 < Len(STATE_ORDER)
        THEN STATE_ORDER[current_index + 2]
        ELSE "FEEDBACK"

\* get_next_state that starts over after the last state
get_next_state_wraps(current_state) ==
    LET current_index == StateIndex(current_state)
    IN  IF current_index < Len(STATE_ORDER)
        THEN STATE_ORDER[current_index + 1]
        ELSE STATE_ORDER[1]

get_next_state(current_state) ==
    LET current_index == StateIndex(current_state)
    IN  IF current_index < Len(STATE_ORDER)
        THEN STATE_ORDER[current_index + 1]
        ELSE "FEEDBACK"

(***************************************************************************)
(* Numbers.  A score mean is kept as the exact fraction num/den in lowest  *)
(* terms; memory.average_score is kept in hundredths (round(x, 2)).        *)
(***************************************************************************)
RECURSIVE Gcd(_, _)
Gcd(a, b) == IF b = 0 THEN a ELSE Gcd(b, a % b)

Frac(num, den) ==
    LET g == Gcd(num, den)
    IN  IF num = 0 THEN [num |-> 0, den |-> 1]
        ELSE [num |-> num \div g, den |-> den \div g]

Max(a, b) == IF a >= b THEN a ELSE b
Min(a, b) == IF a <= b THEN a ELSE b

\* round(num/den, 2) in hundredths, ties to even
Round2(num, den) ==
    LET scaled == 100 * num
        q == scaled \div den
        r == scaled % den
    IN  IF 2 * r > den THEN q + 1
        ELSE IF 2 * r < den THEN q
        ELSE IF q % 2 = 0 THEN q ELSE q + 1

RECURSIVE SumSeq(_)
SumSeq(s) == IF s = <<>> THEN 0 ELSE Head(s) + SumSeq(Tail(s))

InSeq(x, s) == \E i \in 1..Len(s) : s[i] = x

(***************************************************************************)
(* A value found in a parsed JSON reply: a number or something else.       *)
(* numeric tells whether int() accepts the value, val is what int() makes  *)
(* of it.                                                                  *)
(***************************************************************************)
Num(n) == [numeric |-> TRUE, val |-> n]
NotANumber == [numeric |-> FALSE, val |-> 0]
Missing == [numeric |-> FALSE, val |-> -1]

\* the JSON number Infinity, which json.loads accepts: int() of it raises
\* OverflowError
Infinity == [numeric |-> FALSE, val |-> 1]

(***************************************************************************)
(* app/agents/base_agent.py: a reply text is a sequence of pieces, each a  *)
(* markdown fence, the language tag json, a complete JSON value (an object *)
(* with its keys, or a value that is not an object, such as an array) or  *)
(* other text.                                                             *)
(***************************************************************************)
Fence == [kind |-> "fence"]
LanguageTag == [kind |-> "json"]
Prose == [kind |-> "text"]
JsonArray == [kind |-> "array"]
JsonObject(keys) == [kind |-> "object", keys |-> keys]

\* json.loads: the text must be one JSON value, else JSONDecodeError
json_loads(text) ==
    IF Len(text) = 1 /\ text[1].kind \in {"object", "array"}
    THEN [raised |-> FALSE, value |-> text[1]]
    ELSE [raised |-> TRUE, value |-> Prose]

\* re.search of a fence, an optional json tag, the shortest text up to the
\* next fence: the positions of the fences, whether the pattern matches, and
\* group(1)
FencePositions(response) ==
    {i \in 1..Len(response) : response[i] = Fence}

json_match(response) == Cardinality(FencePositions(response)) >= 2

json_match_group(response) ==
    LET opening == CHOOSE i \in FencePositions(response) :
                       \A j \in FencePositions(response) : i <= j
        closing == CHOOSE i \in FencePositions(response) \ {opening} :
                       \A j \in FencePositions(response) \ {opening} : i <= j
        first == IF response[opening + 1] = LanguageTag
                 THEN opening + 2 ELSE opening + 1
    IN  SubSeq(response, first, closing - 1)

\* BaseInterviewAgent.parse_json_response: what json.loads returns, an
\* object or not, or the agent's default after a JSONDecodeError
parse_json_response(response, default_response) ==
    LET loaded ==
            IF json_match(response)
            THEN json_loads(json_match_group(response))
            ELSE json_loads(response)
    IN  IF loaded.raised THEN JsonObject(default_response) ELSE loaded.value

(***************************************************************************)
(* app/agents/answer_analyzer.py                                           *)
(***************************************************************************)
\* AnswerAnalyzerAgent._clamp_score
\* _clamp_score without the upper limit
clamp_score_no_ceiling(score) ==
    IF score.numeric THEN Max(1, score.val) ELSE 3

clamp_score(score) ==
    IF score.numeric THEN Max(1, Min(5, score.val)) ELSE 3

\* AnswerAnalyzerAgent.get_default_response
analyzer_default_response ==
    [parsed |-> TRUE,
     technical_score |-> Num(3), reasoning_depth |-> Num(3),
     communication_clarity |-> Num(3), structure_score |-> Num(3),
     confidence_signals |-> Num(3), issues_detected |-> {}]

\* a reply that is not JSON: parse_json_response substitutes the default
MalformedReply == [parsed |-> FALSE]

\* parsed.get(key, 3) of the analyzer
ScoreOrThree(v) == IF v = Missing THEN Num(3) ELSE v

\* AnswerAnalyzerAgent.evaluate, from the reply text to the AnswerEvaluation
evaluate(reply) ==
    LET parsed == IF reply.parsed THEN reply ELSE analyzer_default_response
    IN  [technical_score |-> clamp_score(ScoreOrThree(parsed.technical_score)),
         reasoning_depth |-> clamp_score(ScoreOrThree(parsed.reasoning_depth)),
         communication_clarity |->
             clamp_score(ScoreOrThree(parsed.communication_clarity)),
         structure_score |-> clamp_score(ScoreOrThree(parsed.structure_score)),
         confidence_signals |->
             clamp_score(ScoreOrThree(parsed.confidence_signals)),
         issues_detected |-> parsed.issues_detected]

\* the keys of the analyzer's reply that _clamp_score reads
ScoreKeys ==
    {"technical_score", "reasoning_depth", "communication_clarity",
     "structure_score", "confidence_signals"}

\* AnswerAnalyzerAgent.evaluate on a reply text: parsed.get raises
\* AttributeError when the reply is JSON but not an object, int() raises
\* OverflowError on Infinity, and neither is caught
evaluate_response(response) ==
    LET parsed == parse_json_response(response, analyzer_default_response)
    IN  IF parsed.kind # "object"
        THEN [raised |-> TRUE, evaluation |-> evaluate(MalformedReply)]
        ELSE IF \E key \in ScoreKeys : parsed.keys[key] = Infinity
        THEN [raised |-> TRUE, evaluation |-> evaluate(MalformedReply)]
        ELSE [raised |-> FALSE, evaluation |-> evaluate(parsed.keys)]

\* five times AnswerEvaluation.average_score
ScoreTotal(e) ==
    e.technical_score + e.reasoning_depth + e.communication_clarity
        + e.structure_score + e.confidence_signals

\* the analyzer replies the model feeds in
AnalyzerReplies ==
    {[parsed |-> TRUE,
      technical_score |-> Num(5), reasoning_depth |-> Num(5),
      communication_clarity |-> Num(5), structure_score |-> Num(5),
      confidence_signals |-> Num(5), issues_detected |-> {}],
     [parsed |-> TRUE,
      technical_score |-> Num(0), reasoning_depth |-> Num(2),
      communication_clarity |-> NotANumber, structure_score |-> Num(2),
      confidence_signals |-> Missing, issues_detected |-> {"rambling"}]}

(***************************************************************************)
(* app/agents/memory_agent.py                                              *)
(***************************************************************************)
AreaVocabulary ==
    <<"algorithms", "data structures", "system design", "databases",
      "api", "microservices", "testing", "debugging", "performance",
      "security", "networking", "cloud", "devops", "leadership",
      "teamwork", "communication", "problem solving", "coding">>

\* str.title() on the vocabulary
AreaTitle ==
    <<"Algorithms", "Data Structures", "System Design", "Databases",
      "Api", "Microservices", "Testing", "Debugging", "Performance",
      "Security", "Networking", "Cloud", "Devops", "Leadership",
      "Teamwork", "Communication", "Problem Solving", "Coding">>

\* A question is the set of vocabulary words its lower-cased text contains.
\* MemoryAgent._extract_area_from_question: first vocabulary word found.
extract_area_from_question(question) ==
    LET hits == {i \in 1..Len(AreaVocabulary) : AreaVocabulary[i] \in question}
    IN  IF hits = {} THEN ""
        ELSE AreaTitle[CHOOSE i \in hits : \A j \in hits : i <= j]

\* the question texts the model feeds in
Questions == {{"api", "coding"}}

EmptyPatterns ==
    [rambling |-> 0, unclear |-> 0, structured |-> 0,
     verbose |-> 0, hesitant |-> 0, confident |-> 0]

\* InterviewMemory()
EmptyMemory ==
    [asked_questions |-> <<>>, weak_areas |-> <<>>, strong_areas |-> <<>>,
     communication_patterns |-> EmptyPatterns,
     performance_trend |-> "stable", average_score |-> 0]

\* Python floats.  A double is written [tenths |-> h, err |-> l] and stands
\* for (h * 2^54 + l) / (10 * 2^54): the decimal value in tenths plus the
\* rounding error in units of 2^-54 / 10.
\* the spacing of doubles around the value, in the unit of err
DoubleUlp(h, l) ==
    LET Below(b) == h < 10 * b \/ (h = 10 * b /\ l < 0)
    IN  IF h < 5 \/ (h = 5 /\ l < 0) THEN 10
        ELSE IF Below(1) THEN 20
        ELSE IF Below(2) THEN 40
        ELSE IF Below(4) THEN 80
        ELSE IF Below(8) THEN 160
        ELSE 320

\* round to nearest double, ties to even: m is the value modulo two ulps,
\* m % g the part below the double under it
RoundToEven(h, l, g, m) ==
    IF 2 * (m % g) < g \/ (2 * (m % g) = g /\ m < g)
    THEN [tenths |-> h, err |-> l - (m % g)]
    ELSE [tenths |-> h, err |-> l - (m % g) + g]

\* 2^54 % 640 = 384
RoundInUlp(h, l, g) == RoundToEven(h, l, g, (h * 384 + l) % (2 * g))

RoundDouble(h, l) == RoundInUlp(h, l, DoubleUlp(h, l))

DoubleAdd(x, y) == RoundDouble(x.tenths + y.tenths, x.err + y.err)

DoubleSub(x, y) == RoundDouble(x.tenths - y.tenths, x.err - y.err)

\* x / 2 of a double that is a sum of two averages: exact
DoubleHalf(x) == [tenths |-> x.tenths \div 2, err |-> x.err \div 2]

DoubleGreater(x, y) ==
    x.tenths > y.tenths \/ (x.tenths = y.tenths /\ x.err > y.err)

\* the literal 0.3
PointThree == RoundDouble(3, 0)

\* AnswerEvaluation.average_score of an evaluation with that score total:
\* total / 5.0
AverageDouble(total) == RoundDouble(2 * total, 0)

EvalTotals(evaluations) ==
    [i \in 1..Len(evaluations) |-> ScoreTotal(evaluations[i])]

\* update_simple lines 159-169 with the "not in" tests left out
area_lists_unchecked(weak_areas, strong_areas, new_evaluation, question) ==
    LET area == extract_area_from_question(question)
        new_total == ScoreTotal(new_evaluation)
        weak == 2 * new_total < 25 /\ area # ""
        strong == ~weak /\ new_total >= 20 /\ area # ""
    IN  [weak_areas |-> IF weak THEN Append(weak_areas, area) ELSE weak_areas,
         strong_areas |->
             IF strong THEN Append(strong_areas, area) ELSE strong_areas]

\* update_simple lines 159-169: the weak and strong area lists after the
\* new evaluation
area_lists(weak_areas, strong_areas, new_evaluation, question) ==
    LET area == extract_area_from_question(question)
        new_total == ScoreTotal(new_evaluation)
        \* average_score < 2.5  <=>  2 * total < 25
        weak == 2 * new_total < 25 /\ area # "" /\ ~InSeq(area, weak_areas)
        strong == ~weak /\ new_total >= 20 /\ area # ""
                    /\ ~InSeq(area, strong_areas)
    IN  [weak_areas |-> IF weak THEN Append(weak_areas, area) ELSE weak_areas,
         strong_areas |->
             IF strong THEN Append(strong_areas, area) ELSE strong_areas]

\* update_simple lines 171-179 with a tag counted when any detected issue
\* mentions it
count_patterns_loosely(old, new_evaluation) ==
    LET B(c) == IF c THEN 1 ELSE 0
        issues == new_evaluation.issues_detected
    IN  [rambling |-> old.rambling + B({"rambling", "Rambling"} \cap issues # {}),
         unclear |-> old.unclear + B("unclear" \in issues),
         structured |-> old.structured + B(new_evaluation.structure_score >= 4),
         verbose |-> old.verbose + B({"verbose", "too verbose"} \cap issues # {}),
         hesitant |-> old.hesitant + B(new_evaluation.confidence_signals <= 2),
         confident |-> old.confident + B(new_evaluation.confidence_signals >= 4)]

\* update_simple lines 171-179: CommunicationPatterns(...)
count_patterns(old, new_evaluation) ==
    LET B(c) == IF c THEN 1 ELSE 0
        issues == new_evaluation.issues_detected
    IN  [rambling |-> old.rambling + B("rambling" \in issues),
         unclear |-> old.unclear + B("unclear" \in issues),
         structured |-> old.structured + B(new_evaluation.structure_score >= 4),
         verbose |-> old.verbose + B("verbose" \in issues),
         hesitant |-> old.hesitant + B(new_evaluation.confidence_signals <= 2),
         confident |-> old.confident + B(new_evaluation.confidence_signals >= 4)]

\* (a.average_score + b.average_score) / 2 of two evaluations, given by
\* their score totals
pair_average(a, b) ==
    DoubleHalf(DoubleAdd(AverageDouble(a), AverageDouble(b)))

\* the trend of the average of the first two and of the last two evaluations
trend_of(first_avg, last_avg) ==
    IF DoubleGreater(last_avg, DoubleAdd(first_avg, PointThree))
    THEN "improving"
    ELSE IF DoubleGreater(DoubleSub(first_avg, PointThree), last_avg)
    THEN "declining"
    ELSE "stable"

\* MemoryAgent.update_simple, the performance trend of all_evaluations,
\* given by their score totals
performance_trend(totals) ==
    IF Len(totals) >= 4
    THEN trend_of(pair_average(totals[1], totals[2]),
                  pair_average(totals[Len(totals) - 1], totals[Len(totals)]))
    ELSE "stable"

\* MemoryAgent.update_simple
update_simple(current_memory, new_evaluation, question, all_evaluations) ==
    LET n == Len(all_evaluations)
        totals == EvalTotals(all_evaluations)
        avg_score ==
            IF n > 0 THEN Round2(SumSeq(totals), 5 * n)
            ELSE Round2(ScoreTotal(new_evaluation), 5)
        areas == area_lists(current_memory.weak_areas,
                            current_memory.strong_areas,
                            new_evaluation, question)
    IN  [asked_questions |-> Append(current_memory.asked_questions, question),
         weak_areas |-> areas.weak_areas,
         strong_areas |-> areas.strong_areas,
         communication_patterns |->
             count_patterns(current_memory.communication_patterns,
                            new_evaluation),
         performance_trend |-> performance_trend(totals),
         average_score |-> avg_score]

\* The same function on objects.  The heap is the sequence of the objects
\* made so far and a reference is an index into it; a list object is a
\* sequence, an InterviewMemory object holds the references of its three
\* lists and of its CommunicationPatterns.
\* the memory an object reference stands for
Deref(heap, memory) ==
    LET m == heap[memory]
    IN  [asked_questions |-> heap[m.asked_questions],
         weak_areas |-> heap[m.weak_areas],
         strong_areas |-> heap[m.strong_areas],
         communication_patterns |-> heap[m.communication_patterns],
         performance_trend |-> m.performance_trend,
         average_score |-> m.average_score]

\* update_simple with weak_areas = current_memory.weak_areas and
\* strong_areas = current_memory.strong_areas in place of the list() copies
update_simple_shared(heap, current_memory, new_evaluation, question, all_evaluations) ==
    LET old == heap[current_memory]
        value == update_simple(Deref(heap, current_memory), new_evaluation,
                               question, heap[all_evaluations])
        h1 == Append(heap, Append(heap[old.asked_questions], question))
        asked_questions == Len(h1)
        weak_areas == old.weak_areas
        strong_areas == old.strong_areas
        areas == area_lists(h1[weak_areas], h1[strong_areas],
                            new_evaluation, question)
        h4 == [h1 EXCEPT ![weak_areas] = areas.weak_areas,
                         ![strong_areas] = areas.strong_areas]
        h5 == Append(h4, value.communication_patterns)
        h6 == Append(h5, [asked_questions |-> asked_questions,
                          weak_areas |-> weak_areas,
                          strong_areas |-> strong_areas,
                          communication_patterns |-> Len(h5),
                          performance_trend |-> value.performance_trend,
                          average_score |-> value.average_score])
    IN  [heap |-> h6, memory |-> Len(h6)]

\* MemoryAgent.update_simple on objects: the + of line 152 builds a new
\* list, list() copies, append writes into the copy, CommunicationPatterns
\* and InterviewMemory are constructed anew; the numbers are those of the
\* function on values
update_simple_objects(heap, current_memory, new_evaluation, question, all_evaluations) ==
    LET old == heap[current_memory]
        value == update_simple(Deref(heap, current_memory), new_evaluation,
                               question, heap[all_evaluations])
        h1 == Append(heap, Append(heap[old.asked_questions], question))
        asked_questions == Len(h1)
        h2 == Append(h1, h1[old.weak_areas])
        weak_areas == Len(h2)
        h3 == Append(h2, h2[old.strong_areas])
        strong_areas == Len(h3)
        \* the appends write into the two copies
        areas == area_lists(h3[weak_areas], h3[strong_areas],
                            new_evaluation, question)
        h4 == [h3 EXCEPT ![weak_areas] = areas.weak_areas,
                         ![strong_areas] = areas.strong_areas]
        h5 == Append(h4, value.communication_patterns)
        h6 == Append(h5, [asked_questions |-> asked_questions,
                          weak_areas |-> weak_areas,
                          strong_areas |-> strong_areas,
                          communication_patterns |-> Len(h5),
                          performance_trend |-> value.performance_trend,
                          average_score |-> value.average_score])
    IN  [heap |-> h6, memory |-> Len(h6)]

\* InterviewSession(): the evaluations list and InterviewMemory() with its
\* three lists and its CommunicationPatterns
SessionHeap ==
    << <<>>, <<>>, <<>>, <<>>, EmptyPatterns,
       [asked_questions |-> 2, weak_areas |-> 3, strong_areas |-> 4,
        communication_patterns |-> 5,
        performance_trend |-> "stable", average_score |-> 0] >>

\* the question texts a direct call is given: two areas, one area, none
MemoryQuestions == {{"api", "coding"}, {"testing"}, {}}

\* the evaluations a direct call is given, with the averages 2.0, 2.6, 4.0
\* and 5.0
MemoryEvaluations ==
    {[technical_score |-> 2, reasoning_depth |-> 2,
      communication_clarity |-> 2, structure_score |-> 2,
      confidence_signals |-> 2, issues_detected |-> {"rambling"}],
     [technical_score |-> 2, reasoning_depth |-> 2,
      communication_clarity |-> 2, structure_score |-> 4,
      confidence_signals |-> 3,
      issues_detected |-> {"unclear", "Rambling", "too verbose"}],
     [technical_score |-> 4, reasoning_depth |-> 4,
      communication_clarity |-> 4, structure_score |-> 4,
      confidence_signals |-> 4, issues_detected |-> {"verbose"}],
     [technical_score |-> 5, reasoning_depth |-> 5,
      communication_clarity |-> 5, structure_score |-> 5,
      confidence_signals |-> 5, issues_detected |-> {}]}

(***************************************************************************)
(* app/agents/session_manager.py                                           *)
(***************************************************************************)
\* SessionManagerAgent.check_transition_simple.  is_member tells whether
\* current_state is an InterviewState member or the plain string of its
\* value: the reason text reads current_state.value, which only a member has.
\* check_transition_simple with > in place of >=
check_transition_simple_strict(current_state, is_member, questions_in_state) ==
    LET required == STATE_QUESTION_LIMITS[current_state]
        should_transition == questions_in_state > required
    IN  IF ~is_member
        THEN [raised |-> TRUE, should_transition |-> FALSE,
              next_state |-> current_state]
        ELSE IF should_transition
        THEN [raised |-> FALSE, should_transition |-> TRUE,
              next_state |-> get_next_state(current_state)]
        ELSE [raised |-> FALSE, should_transition |-> FALSE,
              next_state |-> current_state]

\* check_transition_simple that never fires in the last state
check_transition_simple_last(current_state, is_member, questions_in_state) ==
    LET required == STATE_QUESTION_LIMITS[current_state]
        should_transition == /\ questions_in_state >= required
                             /\ current_state # "FEEDBACK"
    IN  IF ~is_member
        THEN [raised |-> TRUE, should_transition |-> FALSE,
              next_state |-> current_state]
        ELSE IF should_transition
        THEN [raised |-> FALSE, should_transition |-> TRUE,
              next_state |-> get_next_state(current_state)]
        ELSE [raised |-> FALSE, should_transition |-> FALSE,
              next_state |-> current_state]

check_transition_simple(current_state, is_member, questions_in_state) ==
    LET required == STATE_QUESTION_LIMITS[current_state]
        should_transition == questions_in_state >= required
    IN  IF ~is_member
        THEN [raised |-> TRUE, should_transition |-> FALSE,
              next_state |-> current_state]
        ELSE IF should_transition
        THEN [raised |-> FALSE, should_transition |-> TRUE,
              next_state |-> get_next_state(current_state)]
        ELSE [raised |-> FALSE, should_transition |-> FALSE,
              next_state |-> current_state]

\* SessionManagerAgent.get_default_response
session_manager_default_response ==
    [parsed |-> TRUE, should_transition |-> "false",
     next_state |-> "CORE_QUESTIONS"]

\* the session manager replies the model feeds in: should_transition is a
\* JSON boolean, absent, or a value that is no boolean; next_state is a state
\* name, an unknown name or absent
SessionManagerReplies ==
    [parsed : {TRUE},
     should_transition : {"true", "false", "missing", "invalid"},
     next_state : InterviewState \cup {"UNKNOWN", "missing"}]

\* SessionManagerAgent.check_transition, from the reply text on
check_transition(reply, current_state) ==
    LET parsed == IF reply.parsed THEN reply
                  ELSE session_manager_default_response
        next_state_str ==
            IF parsed.next_state = "missing" THEN current_state
            ELSE parsed.next_state
        next_state ==
            IF next_state_str \in InterviewState THEN next_state_str
            ELSE get_next_state(current_state)
    IN  [raised |-> parsed.should_transition = "invalid",
         should_transition |-> parsed.should_transition = "true",
         next_state |-> next_state]

(***************************************************************************)
(* app/agents/difficulty_engine.py                                         *)
(***************************************************************************)
\* DifficultyEngineAgent._clamp_difficulty
\* _clamp_difficulty without the lower limit
clamp_difficulty_no_floor(difficulty) ==
    IF difficulty.numeric THEN Min(5, difficulty.val) ELSE 3

clamp_difficulty(difficulty) ==
    IF difficulty.numeric THEN Max(1, Min(5, difficulty.val)) ELSE 3

\* DifficultyEngineAgent.get_default_response
difficulty_default_response == [parsed |-> TRUE, new_difficulty |-> Num(3)]

\* the difficulty engine replies the model feeds in
DifficultyReplies ==
    {[parsed |-> TRUE, new_difficulty |-> Num(4)],
     [parsed |-> TRUE, new_difficulty |-> Missing]}

\* DifficultyEngineAgent.adjust, from the reply text to new_difficulty
\* adjust with parsed.get("new_difficulty", 3)
adjust_missing_is_three(reply, current_difficulty) ==
    LET parsed == IF reply.parsed THEN reply ELSE difficulty_default_response
    IN  clamp_difficulty(IF parsed.new_difficulty = Missing
                         THEN Num(3)
                         ELSE parsed.new_difficulty)

adjust(reply, current_difficulty) ==
    LET parsed == IF reply.parsed THEN reply ELSE difficulty_default_response
    IN  clamp_difficulty(IF parsed.new_difficulty = Missing
                         THEN Num(current_difficulty)
                         ELSE parsed.new_difficulty)

(***************************************************************************)
(* app/agents/ranker.py.  An OpportunityScore is written with its title,   *)
(* company and score.                                                      *)
(***************************************************************************)
\* settings.top_k, the default of the TOP_K environment variable
top_k == 5

\* the company names the model feeds in
Companies == {"SameCo", "sameco", "OtherCo"}

\* str.lower() on the company names
lower(company) ==
    CASE company = "SameCo" -> "sameco"
      [] company = "sameco" -> "sameco"
      [] company = "OtherCo" -> "otherco"

\* sorted(scored, key=lambda item: item.score, reverse=True): a stable sort,
\* items of equal score keep their order
RECURSIVE sorted_by_score(_)
sorted_by_score(scored) ==
    IF scored = <<>> THEN <<>>
    ELSE LET rest == sorted_by_score(Tail(scored))
             item == Head(scored)
             \* item goes before the first item of rest with a score that is
             \* not higher
             ahead == {i \in 1..Len(rest) : rest[i].score > item.score}
             k == Cardinality(ahead)
         IN  SubSeq(rest, 1, k) \o <<item>> \o SubSeq(rest, k + 1, Len(rest))

\* the for loop of RankerAgent.rank over the items that are left
RECURSIVE rank_loop(_, _, _)
rank_loop(sorted_items, top, company_counts) ==
    IF sorted_items = <<>> THEN top
    ELSE LET item == Head(sorted_items)
             count == company_counts[lower(item.company)]
         IN  IF count >= 2 /\ Len(top) < top_k
             THEN rank_loop(Tail(sorted_items), top, company_counts)
             ELSE LET appended == Append(top, item)
                      counted == [company_counts EXCEPT
                                     ![lower(item.company)] = count + 1]
                  IN  IF Len(appended) >= top_k THEN appended
                      ELSE rank_loop(Tail(sorted_items), appended, counted)

\* RankerAgent.rank
rank(scored) ==
    rank_loop(sorted_by_score(scored), <<>>,
              [key \in {lower(company) : company \in Companies} |-> 0])

(***************************************************************************)
(* app/services/orchestrator.py                                            *)
(***************************************************************************)
ConfigDifficulties == {5}

\* InterviewOrchestrator.__init__.  state_is_member: InterviewSession sets
\* use_enum_values, so whether the validated current_state field holds the
\* member or its plain string value is decided by the validation library;
\* both outcomes are admitted.
InterviewOrchestrator(session_id, difficulty, use_llm, state_is_member) ==
    [session_id |-> session_id,
     use_llm_for_transitions |-> use_llm,
     current_state |-> "INTRO",
     state_is_member |-> state_is_member,
     current_difficulty |-> difficulty,
     questions_asked |-> 0,
     answers |-> <<>>,
     evaluations |-> <<>>,
     memory |-> EmptyMemory,
     overall_score |-> Frac(0, 1),
     is_complete |-> FALSE,
     questions_per_state |-> [s \in InterviewState |-> 0]]

\* InterviewOrchestrator.calculate_average_score
calculate_average_score(o) ==
    IF o.evaluations = <<>> THEN Frac(0, 1)
    ELSE Frac(SumSeq(EvalTotals(o.evaluations)), 5 * Len(o.evaluations))

\* process_answer steps 2 and 3: store the pair, count it, update the memory
\* RecordAnswer that leaves step 3, the memory update, for later
RecordAnswerStaleMemory(o, question, evaluation) ==
    LET evaluations == Append(o.evaluations, evaluation)
    IN  [o EXCEPT
            !.answers = Append(@, [question |-> question,
                                   state |-> o.current_state,
                                   difficulty |-> o.current_difficulty,
                                   evaluation |-> evaluation]),
            !.evaluations = evaluations,
            !.questions_asked = @ + 1,
            !.questions_per_state[o.current_state] = @ + 1]

\* RecordAnswer whose memory is updated from the new evaluation alone
RecordAnswerLastAverage(o, question, evaluation) ==
    LET recorded == RecordAnswerStaleMemory(o, question, evaluation)
    IN  [recorded EXCEPT
            !.memory = update_simple(o.memory, evaluation, question, <<>>)]

\* RecordAnswer whose memory forgets the question of a low-scored answer
RecordAnswerForgetsLow(o, question, evaluation) ==
    LET recorded == RecordAnswerStaleMemory(o, question, evaluation)
        memory == update_simple(o.memory, evaluation, question,
                                recorded.evaluations)
    IN  [recorded EXCEPT
            !.memory = [memory EXCEPT
                           !.asked_questions =
                               IF 2 * ScoreTotal(evaluation) < 25
                               THEN o.memory.asked_questions ELSE @]]

RecordAnswer(o, question, evaluation) ==
    LET evaluations == Append(o.evaluations, evaluation)
    IN  [o EXCEPT
            !.answers = Append(@, [question |-> question,
                                   state |-> o.current_state,
                                   difficulty |-> o.current_difficulty,
                                   evaluation |-> evaluation]),
            !.evaluations = evaluations,
            !.questions_asked = @ + 1,
            !.questions_per_state[o.current_state] = @ + 1,
            !.memory = update_simple(o.memory, evaluation, question,
                                     evaluations)]

\* process_answer steps 7 and 8: apply the transition, detect completion
\* ApplyTransition that clears the counter of the state left as well
ApplyTransitionClearsBoth(o, transition) ==
    LET moved ==
            IF transition.should_transition
            THEN [o EXCEPT !.current_state = transition.next_state,
                           !.state_is_member = TRUE,
                           !.questions_per_state[o.current_state] = 0,
                           !.questions_per_state[transition.next_state] = 0]
            ELSE o
    IN  IF moved.current_state = "FEEDBACK"
        THEN [moved EXCEPT !.is_complete = TRUE,
                           !.overall_score = calculate_average_score(moved)]
        ELSE moved

ApplyTransition(o, transition) ==
    LET moved ==
            IF transition.should_transition
            THEN [o EXCEPT !.current_state = transition.next_state,
                           !.state_is_member = TRUE,
                           !.questions_per_state[transition.next_state] = 0]
            ELSE o
    IN  IF moved.current_state = "FEEDBACK"
        THEN [moved EXCEPT !.is_complete = TRUE,
                           !.overall_score = calculate_average_score(moved)]
        ELSE moved

\* InterviewOrchestrator.process_answer_sync: the whole pipeline without
\* suspension, steps 1 to 8, as the orchestrator it leaves behind; raised
\* tells that step 6 raised
process_answer_sync(o, question, analyzer_reply, difficulty_reply) ==
    LET recorded == RecordAnswer(o, question, evaluate(analyzer_reply))
        adjusted ==
            [recorded EXCEPT !.current_difficulty =
                adjust(difficulty_reply, recorded.current_difficulty)]
        transition ==
            check_transition_simple(
                adjusted.current_state, adjusted.state_is_member,
                adjusted.questions_per_state[adjusted.current_state])
    IN  IF transition.raised
        THEN [raised |-> TRUE, orchestrator |-> adjusted]
        ELSE [raised |-> FALSE,
              orchestrator |-> ApplyTransition(adjusted, transition)]

(***************************************************************************)
(* app/graph/interview_workflow.py.  The graph state is written with the   *)
(* keys the nodes read later: evaluation_result is the evaluation that     *)
(* analyze_answer has just appended, the outputs of the agents that no     *)
(* node reads are left out.  state_is_member tells whether the caller      *)
(* passed an InterviewState member as current_state or its plain string.   *)
(***************************************************************************)
\* the arguments of the first InterviewWorkflow.process_answer call on a
\* new interview
InterviewGraphState(difficulty, state_is_member) ==
    [current_state |-> "INTRO",
     state_is_member |-> state_is_member,
     current_difficulty |-> difficulty,
     questions_asked |-> 0,
     current_question |-> {},
     answers |-> <<>>,
     evaluations |-> <<>>,
     memory |-> EmptyMemory,
     overall_score |-> Frac(0, 1),
     is_complete |-> FALSE]

\* node analyze_answer
analyze_answer(state, reply) ==
    LET evaluation == evaluate(reply)
        qa_pair == [question |-> state.current_question,
                    state |-> state.current_state,
                    difficulty |-> state.current_difficulty,
                    evaluation |-> evaluation]
    IN  [state EXCEPT !.answers = Append(@, qa_pair),
                      !.evaluations = Append(@, evaluation),
                      !.questions_asked = @ + 1]

\* node update_memory
update_memory(state) ==
    LET evaluations == state.evaluations
        evaluation_result == evaluations[Len(evaluations)]
    IN  [state EXCEPT
            !.memory = update_simple(state.memory, evaluation_result,
                                     state.current_question, evaluations),
            !.overall_score =
                Frac(SumSeq(EvalTotals(evaluations)), 5 * Len(evaluations))]

\* node adjust_difficulty
adjust_difficulty(state, reply) ==
    [state EXCEPT !.current_difficulty = adjust(reply, state.current_difficulty)]

\* node check_state_transition; raised tells that check_transition_simple
\* raised
check_state_transition(state) ==
    LET questions_in_state ==
            Cardinality({i \in 1..Len(state.answers) :
                            state.answers[i].state = state.current_state})
        transition ==
            check_transition_simple(state.current_state, state.state_is_member,
                                    questions_in_state)
        new_state == IF transition.should_transition
                     THEN transition.next_state ELSE state.current_state
    IN  [raised |-> transition.raised,
         state |-> [state EXCEPT
                       !.current_state = new_state,
                       !.state_is_member = @ \/ transition.should_transition,
                       !.is_complete = (new_state = "FEEDBACK")]]

\* InterviewWorkflow.process_answer: the graph from START to END.  The call
\* is given the state the caller holds, without is_complete; node
\* analyze_communication and the two last nodes (generate_question, or
\* generate_report, which sets is_complete where it is true already) leave
\* the keys kept here alone.  When a node raises, invoke raises and the
\* caller is left with what it held.
workflow_process_answer(held, question, analyzer_reply, difficulty_reply) ==
    LET initial_state == [held EXCEPT !.current_question = question,
                                      !.is_complete = FALSE]
        adjusted == adjust_difficulty(
                        update_memory(analyze_answer(initial_state,
                                                     analyzer_reply)),
                        difficulty_reply)
        checked == check_state_transition(adjusted)
    IN  IF checked.raised
        THEN [raised |-> TRUE, state |-> held]
        ELSE [raised |-> FALSE, state |-> checked.state]

(***************************************************************************)
(* app/services/session_store.py                                           *)
(***************************************************************************)
SessionIds == 1..MaxSessions

\* uuid4(): an id no orchestrator has been given yet
\* the id drawn once and handed to every later orchestrator
uuid4_repeats ==
    IF orchestrators = <<>> THEN Len(orchestrators) + 1 ELSE Len(orchestrators)

uuid4 == Len(orchestrators) + 1

\* InterviewSessionStore.get_session / get_report: None is 0 / NoReport
get_session(session_id) ==
    IF session_id \in DOMAIN sessions THEN sessions[session_id] ELSE 0

NoReport == [session_id |-> 0, generation |-> 0]

get_report(session_id) ==
    IF session_id \in DOMAIN reports THEN reports[session_id] ELSE NoReport

\* InterviewSessionStore.create_session: the dictionary after registering
create_session(orchestrator, reference) ==
    [k \in DOMAIN sessions \cup {orchestrator.session_id} |->
        IF k = orchestrator.session_id THEN reference ELSE sessions[k]]

\* remove_session emptying the dictionary
remove_session_all(session_id) ==
    [k \in {} |-> sessions[k]]

\* InterviewSessionStore.remove_session: the dictionary after del
remove_session(session_id) ==
    [k \in DOMAIN sessions \ {session_id} |-> sessions[k]]

\* InterviewSessionStore.store_report: the dictionary after the assignment
store_report(session_id, report) ==
    [k \in DOMAIN reports \cup {session_id} |->
        IF k = session_id THEN report ELSE reports[k]]

(***************************************************************************)
(* Requests                                                                *)
(***************************************************************************)
Tasks == 1..MaxTasks

\* the coroutine slots: one more than Tasks, for the overlapping requests
OverlapTasks == 1..(MaxTasks + 1)

Idle ==
    [pc |-> "idle", endpoint |-> "", session_id |-> 0, ref |-> 0,
     question |-> {}, arg_difficulty |-> 0, arg_state |-> "", generation |-> 0]

\* a new request takes the first free coroutine slot
FreeSlot(t) ==
    /\ tasks[t].pc = "idle"
    /\ \A u \in OverlapTasks : u < t => tasks[u].pc # "idle"

Response(endpoint, session_id, status) ==
    [endpoint |-> endpoint, session_id |-> session_id, status |-> status,
     next_question |-> FALSE, report |-> NoReport]

NoResponse == Response("", 0, 0)

NoProbe == [fn |-> "", state |-> "", is_member |-> TRUE, count |-> 0,
            result |-> [raised |-> FALSE, should_transition |-> FALSE,
                        next_state |-> ""]]

\* the replies an external call may give now: a malformed text always, a
\* parsed one among the first MaxParsed replies of the run
RepliesNow(parsed_replies) ==
    {MalformedReply} \cup (IF used.replies < MaxParsed THEN parsed_replies ELSE {})

CountReply(reply) ==
    [used EXCEPT !.replies = IF @ < MaxParsed THEN @ + 1 ELSE @]

\* the session manager replies: a parsed one among its first MaxParsed
ManagerRepliesNow ==
    {MalformedReply}
        \cup (IF used.manager < MaxParsed THEN SessionManagerReplies ELSE {})

NothingUsed == [submits |-> 0, replies |-> 0, errors |-> 0, manager |-> 0]

\* the module-level session_store, before any request
Init ==
    /\ orchestrators = <<>>
    /\ sessions = [k \in {} |-> 0]
    /\ reports = [k \in {} |-> NoReport]
    /\ tasks = [t \in OverlapTasks |-> Idle]
    /\ last_response = NoResponse
    /\ generate_calls = [k \in SessionIds |-> 0]
    /\ used = NothingUsed
    /\ probe = NoProbe

(***************************************************************************)
(* app/api/interview.py                                                    *)
(***************************************************************************)
\* POST /start: create_session, then the first question is generated.  The
\* handler touches no shared state after its await, so it is one step.
\* limit is the number of sessions the specification follows.
start_interview(limit) ==
    /\ Len(orchestrators) < limit
    /\ \E difficulty \in ConfigDifficulties, state_is_member \in BOOLEAN,
          failed \in BOOLEAN :
        LET orchestrator ==
                InterviewOrchestrator(uuid4, difficulty, FALSE, state_is_member)
            reference == Len(orchestrators) + 1
        IN  /\ failed => used.errors < MaxErrors
            /\ orchestrators' = Append(orchestrators, orchestrator)
            /\ sessions' = create_session(orchestrator, reference)
            /\ used' = [used EXCEPT !.errors = IF failed THEN @ + 1 ELSE @]
            /\ last_response' =
                   IF failed
                   THEN Response("start", 0, 500)
                   ELSE [Response("start", orchestrator.session_id, 200)
                            EXCEPT !.next_question = TRUE]
    /\ UNCHANGED <<reports, tasks, generate_calls, probe>>

\* POST /answer up to the first await (evaluate)
submit_answer(t, session_id) ==
    /\ FreeSlot(t)
    /\ \E question \in Questions :
        LET reference == get_session(session_id)
        IN  IF reference = 0
            THEN /\ last_response' = Response("answer", session_id, 404)
                 /\ UNCHANGED <<tasks, used>>
            ELSE IF orchestrators[reference].is_complete
            THEN /\ last_response' = Response("answer", session_id, 400)
                 /\ UNCHANGED <<tasks, used>>
            ELSE /\ used.submits < MaxSubmits
                 /\ tasks' = [tasks EXCEPT ![t] =
                        [Idle EXCEPT !.pc = "evaluate", !.endpoint = "answer",
                                     !.session_id = session_id,
                                     !.ref = reference,
                                     !.question = question]]
                 /\ used' = [used EXCEPT !.submits = @ + 1]
                 /\ last_response' = NoResponse
    /\ UNCHANGED <<orchestrators, sessions, reports, generate_calls, probe>>

\* the response of a process_answer call that returned
AnswerResponse(task, has_question) ==
    [Response(task.endpoint, task.session_id, 200)
        EXCEPT !.next_question = has_question]

\* process_answer: evaluate returned; steps 2 and 3, then the next await
evaluate_returns(t) ==
    /\ tasks[t].pc = "evaluate"
    /\ \E reply \in RepliesNow(AnalyzerReplies) :
        LET o == RecordAnswer(orchestrators[tasks[t].ref], tasks[t].question,
                              evaluate(reply))
        IN  /\ orchestrators' = [orchestrators EXCEPT ![tasks[t].ref] = o]
            /\ tasks' = [tasks EXCEPT ![t] =
                   IF Len(o.answers) >= 2
                   THEN [@ EXCEPT !.pc = "coach"]
                   ELSE [@ EXCEPT !.pc = "adjust",
                                  !.arg_difficulty = o.current_difficulty]]
            /\ used' = CountReply(reply)
    /\ last_response' = NoResponse
    /\ UNCHANGED <<sessions, reports, generate_calls, probe>>

\* process_answer step 4 returned; step 5 calls the difficulty engine
coach_returns(t) ==
    /\ tasks[t].pc = "coach"
    /\ tasks' = [tasks EXCEPT ![t] =
           [@ EXCEPT !.pc = "adjust",
                     !.arg_difficulty =
                         orchestrators[tasks[t].ref].current_difficulty]]
    /\ last_response' = NoResponse
    /\ UNCHANGED <<orchestrators, sessions, reports, generate_calls, used,
                   probe>>

\* steps 7 and 8 and what follows: the completed response, or the await of
\* the next question
FinishAnswer(t, o, transition) ==
    LET after == ApplyTransition(o, transition)
    IN  /\ orchestrators' = [orchestrators EXCEPT ![tasks[t].ref] = after]
        /\ IF after.current_state = "FEEDBACK"
           THEN /\ tasks' = [tasks EXCEPT ![t] = Idle]
                /\ last_response' = AnswerResponse(tasks[t], FALSE)
           ELSE /\ tasks' = [tasks EXCEPT ![t] = [@ EXCEPT !.pc = "question"]]
                /\ last_response' = NoResponse

\* process_answer: the difficulty engine returned; step 5 is applied, then
\* step 6 either awaits the session manager or decides by the counters
adjust_returns(t) ==
    /\ tasks[t].pc = "adjust"
    /\ \E reply \in RepliesNow(DifficultyReplies) :
        LET before == orchestrators[tasks[t].ref]
            o == [before EXCEPT !.current_difficulty =
                                    adjust(reply, tasks[t].arg_difficulty)]
            transition ==
                check_transition_simple(
                    o.current_state, o.state_is_member,
                    o.questions_per_state[o.current_state])
        IN  /\ used' = CountReply(reply)
            /\ IF o.use_llm_for_transitions
               THEN /\ orchestrators' =
                           [orchestrators EXCEPT ![tasks[t].ref] = o]
                    /\ tasks' = [tasks EXCEPT ![t] =
                           [@ EXCEPT !.pc = "transition",
                                     !.arg_state = o.current_state]]
                    /\ last_response' = NoResponse
               ELSE IF transition.raised
               THEN /\ orchestrators' =
                           [orchestrators EXCEPT ![tasks[t].ref] = o]
                    /\ tasks' = [tasks EXCEPT ![t] = Idle]
                    /\ last_response' =
                           Response(tasks[t].endpoint, tasks[t].session_id, 500)
               ELSE FinishAnswer(t, o, transition)
    /\ UNCHANGED <<sessions, reports, generate_calls, probe>>

\* process_answer: the session manager returned (use_llm_for_transitions)
transition_returns(t) ==
    /\ tasks[t].pc = "transition"
    /\ \E reply \in ManagerRepliesNow :
        LET transition == check_transition(reply, tasks[t].arg_state)
        IN  /\ used' = [used EXCEPT !.manager =
                                    IF @ < MaxParsed THEN @ + 1 ELSE @]
            /\ IF transition.raised
               THEN /\ tasks' = [tasks EXCEPT ![t] = Idle]
                    /\ last_response' =
                           Response(tasks[t].endpoint, tasks[t].session_id, 500)
                    /\ UNCHANGED orchestrators
               ELSE FinishAnswer(t, orchestrators[tasks[t].ref], transition)
    /\ UNCHANGED <<sessions, reports, generate_calls, probe>>

\* process_answer step 9 returned: the result bundle is built and returned
question_returns(t) ==
    /\ tasks[t].pc = "question"
    /\ tasks' = [tasks EXCEPT ![t] = Idle]
    /\ last_response' = AnswerResponse(tasks[t], TRUE)
    /\ UNCHANGED <<orchestrators, sessions, reports, generate_calls, used,
                   probe>>

\* an awaited agent call raises and the handler answers 500: the external
\* call raised and BaseInterviewAgent.invoke re-raised, or the reply was JSON
\* but not an object and the agent's parsed.get raised
\* call_fails that records the analyzer's default evaluation when evaluate
\* fails
call_fails_with_default(t) ==
    /\ tasks[t].pc \in {"evaluate", "coach", "adjust", "transition",
                        "question", "generate"}
    /\ used.errors < MaxErrors
    /\ used' = [used EXCEPT !.errors = @ + 1]
    /\ tasks' = [tasks EXCEPT ![t] = Idle]
    /\ last_response' = Response(tasks[t].endpoint, tasks[t].session_id, 500)
    /\ orchestrators' =
           IF tasks[t].pc = "evaluate"
           THEN [orchestrators EXCEPT ![tasks[t].ref] =
                    RecordAnswer(@, tasks[t].question, evaluate(MalformedReply))]
           ELSE orchestrators
    /\ UNCHANGED <<sessions, reports, generate_calls, probe>>

call_fails(t) ==
    /\ tasks[t].pc \in {"evaluate", "coach", "adjust", "transition",
                        "question", "generate"}
    /\ used.errors < MaxErrors
    /\ used' = [used EXCEPT !.errors = @ + 1]
    /\ tasks' = [tasks EXCEPT ![t] = Idle]
    /\ last_response' = Response(tasks[t].endpoint, tasks[t].session_id, 500)
    /\ UNCHANGED <<orchestrators, sessions, reports, generate_calls, probe>>

\* GET /{session_id}
get_session_status(session_id) ==
    /\ last_response' =
            IF get_session(session_id) = 0
            THEN Response("status", session_id, 404)
            ELSE Response("status", session_id, 200)
    /\ UNCHANGED <<orchestrators, sessions, reports, tasks, generate_calls,
                   used, probe>>

\* get_final_report without the is_complete test
get_final_report_unchecked(t, session_id) ==
    /\ FreeSlot(t)
    /\  LET cached_report == get_report(session_id)
            reference == get_session(session_id)
        IN  IF cached_report # NoReport
            THEN /\ last_response' =
                        [Response("report", session_id, 200)
                            EXCEPT !.report = cached_report]
                 /\ UNCHANGED <<tasks, generate_calls>>
            ELSE IF reference = 0
            THEN /\ last_response' = Response("report", session_id, 404)
                 /\ UNCHANGED <<tasks, generate_calls>>
            ELSE /\ generate_calls[session_id] < MaxReportCalls
                 /\ generate_calls' =
                        [generate_calls EXCEPT ![session_id] = @ + 1]
                 /\ tasks' = [tasks EXCEPT ![t] =
                        [Idle EXCEPT !.pc = "generate", !.endpoint = "report",
                                     !.session_id = session_id,
                                     !.ref = reference,
                                     !.generation =
                                         generate_calls[session_id] + 1]]
                 /\ last_response' = NoResponse
    /\ UNCHANGED <<orchestrators, sessions, reports, used, probe>>

\* GET /{session_id}/report up to the await of the report generator
get_final_report(t, session_id) ==
    /\ FreeSlot(t)
    /\  LET cached_report == get_report(session_id)
            reference == get_session(session_id)
        IN  IF cached_report # NoReport
            THEN /\ last_response' =
                        [Response("report", session_id, 200)
                            EXCEPT !.report = cached_report]
                 /\ UNCHANGED <<tasks, generate_calls>>
            ELSE IF reference = 0
            THEN /\ last_response' = Response("report", session_id, 404)
                 /\ UNCHANGED <<tasks, generate_calls>>
            ELSE IF ~orchestrators[reference].is_complete
            THEN /\ last_response' = Response("report", session_id, 400)
                 /\ UNCHANGED <<tasks, generate_calls>>
            ELSE /\ generate_calls[session_id] < MaxReportCalls
                 /\ generate_calls' =
                        [generate_calls EXCEPT ![session_id] = @ + 1]
                 /\ tasks' = [tasks EXCEPT ![t] =
                        [Idle EXCEPT !.pc = "generate", !.endpoint = "report",
                                     !.session_id = session_id,
                                     !.ref = reference,
                                     !.generation =
                                         generate_calls[session_id] + 1]]
                 /\ last_response' = NoResponse
    /\ UNCHANGED <<orchestrators, sessions, reports, used, probe>>

\* GET /{session_id}/report after the await: each generation builds a new
\* FinalReport (own generated_at), which is stored and returned
generate_returns(t) ==
    /\ tasks[t].pc = "generate"
    /\ LET report ==
               [session_id |-> orchestrators[tasks[t].ref].session_id,
                generation |-> tasks[t].generation]
       IN  /\ reports' = store_report(tasks[t].session_id, report)
           /\ last_response' =
                  [Response("report", tasks[t].session_id, 200)
                      EXCEPT !.report = report]
    /\ tasks' = [tasks EXCEPT ![t] = Idle]
    /\ UNCHANGED <<orchestrators, sessions, generate_calls, used, probe>>

\* DELETE /{session_id}
delete_session(session_id) ==
    /\  IF session_id \in DOMAIN sessions
        THEN /\ sessions' = remove_session(session_id)
             /\ last_response' = Response("delete", session_id, 200)
        ELSE /\ last_response' = Response("delete", session_id, 404)
             /\ UNCHANGED sessions
    /\ UNCHANGED <<orchestrators, reports, tasks, generate_calls, used, probe>>

(***************************************************************************)
(* Spec: one interview session driven through POST /start, POST /answer    *)
(* and GET /{session_id}.                                                  *)
(***************************************************************************)
Next ==
    \/ start_interview(1)
    \/ \E t \in Tasks : submit_answer(t, 1)
    \/ \E t \in Tasks : evaluate_returns(t)
    \/ \E t \in Tasks : coach_returns(t)
    \/ \E t \in Tasks : adjust_returns(t)
    \/ \E t \in Tasks : question_returns(t)
    \/ \E t \in Tasks : call_fails(t)
    \/ get_session_status(1)

Spec == Init /\ [][Next]_vars

(***************************************************************************)
(* SpecOverlap: one interview session driven through all the handlers,     *)
(* with one more request in flight.                                        *)
(***************************************************************************)
NextOverlap ==
    \/ start_interview(1)
    \/ \E t \in OverlapTasks : submit_answer(t, 1)
    \/ \E t \in OverlapTasks : evaluate_returns(t)
    \/ \E t \in OverlapTasks : coach_returns(t)
    \/ \E t \in OverlapTasks : adjust_returns(t)
    \/ \E t \in OverlapTasks : question_returns(t)
    \/ \E t \in OverlapTasks : call_fails(t)
    \/ get_session_status(1)
    \/ \E t \in OverlapTasks : get_final_report(t, 1)
    \/ \E t \in OverlapTasks : generate_returns(t)
    \/ delete_session(1)

SpecOverlap == Init /\ [][NextOverlap]_vars

(***************************************************************************)
(* SpecRace: one interview session and two POST /answer requests that may  *)
(* be in the pipeline together, suspended at its awaits in every order.    *)
(***************************************************************************)
RaceTasks == {1, 2}

NextRace ==
    \/ start_interview(1)
    \/ \E t \in RaceTasks : submit_answer(t, 1)
    \/ \E t \in RaceTasks : evaluate_returns(t)
    \/ \E t \in RaceTasks : coach_returns(t)
    \/ \E t \in RaceTasks : adjust_returns(t)
    \/ \E t \in RaceTasks : question_returns(t)
    \/ \E t \in RaceTasks : call_fails(t)

SpecRace == Init /\ [][NextRace]_vars

(***************************************************************************)
(* SpecStore: the store with several sessions.  It starts from the store   *)
(* that holds one session which has answered the first eight questions     *)
(* (every reply malformed, so every evaluation is the default one); from   *)
(* there on no reply parses and no call raises.                            *)
(***************************************************************************)
RECURSIVE AfterAnswers(_, _)
AfterAnswers(o, n) ==
    IF n = 0 THEN o
    ELSE process_answer_sync(AfterAnswers(o, n - 1),
                             CHOOSE q \in Questions : TRUE,
                             MalformedReply, MalformedReply).orchestrator

InitStore ==
    /\ \E difficulty \in ConfigDifficulties :
         orchestrators =
             <<AfterAnswers(InterviewOrchestrator(1, difficulty, FALSE, TRUE), 8)>>
    /\ sessions = [k \in {1} |-> 1]
    /\ reports = [k \in {} |-> NoReport]
    /\ tasks = [t \in OverlapTasks |-> Idle]
    /\ last_response =
           [Response("answer", 1, 200) EXCEPT !.next_question = TRUE]
    /\ generate_calls = [k \in SessionIds |-> 0]
    /\ used = [NothingUsed EXCEPT !.submits = 8, !.replies = MaxParsed,
                                  !.errors = MaxErrors]
    /\ probe = NoProbe

NextStore ==
    \/ start_interview(MaxSessions)
    \/ \E t \in Tasks, session_id \in SessionIds : submit_answer(t, session_id)
    \/ \E t \in Tasks : evaluate_returns(t)
    \/ \E t \in Tasks : coach_returns(t)
    \/ \E t \in Tasks : adjust_returns(t)
    \/ \E t \in Tasks : question_returns(t)
    \/ \E session_id \in SessionIds : get_session_status(session_id)
    \/ \E t \in Tasks, session_id \in SessionIds :
           get_final_report(t, session_id)
    \/ \E t \in Tasks : generate_returns(t)
    \/ \E session_id \in SessionIds : delete_session(session_id)

SpecStore == InitStore /\ [][NextStore]_vars

(***************************************************************************)
(* SpecLLM: an orchestrator constructed with use_llm_for_transitions and   *)
(* driven directly, as scripts/sample_interview.py drives one: the caller  *)
(* asks is_complete before each process_answer call.                       *)
(***************************************************************************)
InitLLM ==
    /\ \E difficulty \in ConfigDifficulties, state_is_member \in BOOLEAN :
         orchestrators =
             <<InterviewOrchestrator(1, difficulty, TRUE, state_is_member)>>
    /\ sessions = [k \in {} |-> 0]
    /\ reports = [k \in {} |-> NoReport]
    /\ tasks = [t \in OverlapTasks |-> Idle]
    /\ last_response = NoResponse
    /\ generate_calls = [k \in SessionIds |-> 0]
    /\ used = NothingUsed
    /\ probe = NoProbe

\* the caller's loop body up to the first await of process_answer
direct_process_answer(t) ==
    /\ FreeSlot(t)
    /\ ~orchestrators[1].is_complete
    /\ used.submits < MaxSubmits
    /\ \E question \in Questions :
         tasks' = [tasks EXCEPT ![t] =
             [Idle EXCEPT !.pc = "evaluate", !.endpoint = "direct",
                          !.session_id = orchestrators[1].session_id,
                          !.ref = 1, !.question = question]]
    /\ used' = [used EXCEPT !.submits = @ + 1]
    /\ last_response' = NoResponse
    /\ UNCHANGED <<orchestrators, sessions, reports, generate_calls, probe>>

NextLLM ==
    \/ \E t \in Tasks : direct_process_answer(t)
    \/ \E t \in Tasks : evaluate_returns(t)
    \/ \E t \in Tasks : coach_returns(t)
    \/ \E t \in Tasks : adjust_returns(t)
    \/ \E t \in Tasks : transition_returns(t)
    \/ \E t \in Tasks : question_returns(t)
    \/ \E t \in Tasks : call_fails(t)

SpecLLM == InitLLM /\ [][NextLLM]_vars

(***************************************************************************)
(* SpecTransition: check_transition_simple called directly on every state  *)
(* and count.                                                              *)
(***************************************************************************)
call_check_transition_simple ==
    /\ \E current_state \in InterviewState, is_member \in BOOLEAN,
          questions_in_state \in 0..MaxCount, difficulty \in ConfigDifficulties :
         LET result == check_transition_simple(current_state, is_member,
                                               questions_in_state)
             \* an orchestrator at step 6 in that state with that counter
             o == [InterviewOrchestrator(uuid4, difficulty, FALSE, is_member)
                      EXCEPT !.current_state = current_state,
                             !.questions_per_state[current_state] =
                                 questions_in_state]
         IN  probe' = [fn |-> "check_transition_simple",
                       state |-> current_state, is_member |-> is_member,
                       count |-> questions_in_state,
                       result |-> result,
                       \* steps 7 and 8 on that orchestrator
                       after |-> IF result.raised THEN o
                                 ELSE ApplyTransition(o, result)]
    /\ last_response' = NoResponse
    /\ UNCHANGED <<orchestrators, sessions, reports, tasks, generate_calls,
                   used>>

SpecTransition == Init /\ [][call_check_transition_simple]_vars

(***************************************************************************)
(* SpecParse: AnswerAnalyzerAgent.evaluate called directly on every reply  *)
(* text of at most MaxTokens pieces.                                       *)
(***************************************************************************)
\* the objects a reply text may hold
ReplyObjects ==
    AnalyzerReplies
        \cup {[analyzer_default_response EXCEPT !.technical_score = Infinity]}

ReplyPieces ==
    {Fence, LanguageTag, Prose, JsonArray}
        \cup {JsonObject(keys) : keys \in ReplyObjects}

ReplyTexts == UNION {[1..n -> ReplyPieces] : n \in 0..MaxTokens}

call_evaluate ==
    /\ probe = NoProbe
    /\ \E response \in ReplyTexts :
         probe' = [fn |-> "evaluate", response |-> response,
                   parsed |-> parse_json_response(response,
                                                  analyzer_default_response),
                   result |-> evaluate_response(response)]
    /\ last_response' = NoResponse
    /\ UNCHANGED <<orchestrators, sessions, reports, tasks, generate_calls,
                   used>>

SpecParse == Init /\ [][call_evaluate]_vars

(***************************************************************************)
(* SpecScores: process_answer_sync called once on a new orchestrator of    *)
(* every valid configured difficulty, for every analyzer reply and every   *)
(* difficulty engine reply whose numbers are integers of magnitude at most *)
(* MaxScore, other values, or missing, and for a malformed difficulty      *)
(* reply.                                                                  *)
(***************************************************************************)
ScoreInputs ==
    {Num(n) : n \in (0 - MaxScore)..MaxScore} \cup {NotANumber, Missing}

\* InterviewConfig.difficulty: Field(default=3, ge=1, le=5)
ValidDifficulties == 1..5

call_process_answer_sync ==
    /\ probe = NoProbe
    /\ \E a \in ScoreInputs, b \in ScoreInputs, d \in ScoreInputs,
          difficulty_parsed \in BOOLEAN, question \in Questions,
          difficulty \in ValidDifficulties :
         LET reply == [parsed |-> TRUE,
                       technical_score |-> a, reasoning_depth |-> b,
                       communication_clarity |-> a, structure_score |-> b,
                       confidence_signals |-> a, issues_detected |-> {}]
             difficulty_reply ==
                 IF difficulty_parsed
                 THEN [parsed |-> TRUE, new_difficulty |-> d]
                 ELSE MalformedReply
             started == InterviewOrchestrator(uuid4, difficulty, FALSE, TRUE)
             result == process_answer_sync(started, question, reply,
                                           difficulty_reply)
         IN  /\ ~difficulty_parsed => d = Missing
             /\ probe' = [fn |-> "process_answer_sync", reply |-> reply,
                          difficulty_reply |-> difficulty_reply,
                          started_difficulty |-> started.current_difficulty,
                          evaluations |-> result.orchestrator.evaluations,
                          current_difficulty |->
                              result.orchestrator.current_difficulty]
    /\ last_response' = NoResponse
    /\ UNCHANGED <<orchestrators, sessions, reports, tasks, generate_calls,
                   used>>

SpecScores == Init /\ [][call_process_answer_sync]_vars

(***************************************************************************)
(* SpecMemory: MemoryAgent.update_simple called as steps 2 and 3 of         *)
(* process_answer call it, on the memory the call before returned and the  *)
(* session's evaluations list, for every question and evaluation; each     *)
(* call is followed by a second one with the same arguments.               *)
(***************************************************************************)
call_update_simple ==
    /\ probe.fn \in {"", "update_simple"}
    /\ \E question \in MemoryQuestions, new_evaluation \in MemoryEvaluations :
         LET heap == IF probe.fn = "" THEN SessionHeap ELSE probe.heap
             current_memory ==
                 IF probe.fn = "" THEN Len(SessionHeap) ELSE probe.result
             all_evaluations == 1
             \* self.session.evaluations.append(evaluation)
             called == [heap EXCEPT ![all_evaluations] =
                                        Append(@, new_evaluation)]
             first == update_simple_objects(called, current_memory,
                                            new_evaluation, question,
                                            all_evaluations)
             second == update_simple_objects(first.heap, current_memory,
                                             new_evaluation, question,
                                             all_evaluations)
         IN  /\ Len(heap[all_evaluations]) < MaxUpdates
             /\ probe' = [fn |-> "update_simple",
                          called |-> called,
                          current_memory |-> current_memory,
                          new_evaluation |-> new_evaluation,
                          question |-> question,
                          all_evaluations |-> all_evaluations,
                          heap |-> first.heap,
                          result |-> first.memory,
                          again |-> Deref(second.heap, second.memory),
                          after_again |-> second.heap]
    /\ last_response' = NoResponse
    /\ UNCHANGED <<orchestrators, sessions, reports, tasks, generate_calls,
                   used>>

SpecMemory == Init /\ [][call_update_simple]_vars

(***************************************************************************)
(* SpecRank: RankerAgent.rank called directly on every list of up to       *)
(* MaxItems scored opportunities of the companies above, with scores that  *)
(* fall along the list (as in test_ranker_diversity), rise along it or are *)
(* all equal.                                                              *)
(***************************************************************************)
call_rank ==
    /\ probe = NoProbe
    /\ \E n \in 0..MaxItems, order \in {"falling", "rising", "equal"} :
         \E companies \in [1..n -> Companies] :
             LET scored ==
                     [i \in 1..n |->
                         [title |-> i, company |-> companies[i],
                          score |-> CASE order = "falling" -> 100 - i
                                      [] order = "rising" -> i
                                      [] order = "equal" -> 50]]
             IN  probe' = [fn |-> "rank", scored |-> scored,
                           result |-> rank(scored)]
    /\ last_response' = NoResponse
    /\ UNCHANGED <<orchestrators, sessions, reports, tasks, generate_calls,
                   used>>

SpecRank == Init /\ [][call_rank]_vars

(***************************************************************************)
(* SpecRefine: a new orchestrator driven through process_answer_sync and   *)
(* the graph workflow driven through InterviewWorkflow.process_answer,     *)
(* both from the same initial state and fed the same questions and replies *)
(* answer after answer, until one of them raises.  The session of the      *)
(* orchestrator holds current_state as its constructor left it, the        *)
(* workflow is passed a member or the plain string, which compare equal.   *)
(* The difficulty reply is the malformed one throughout.                   *)
(***************************************************************************)
call_both ==
    /\ probe.fn \in {"", "both"}
    /\ \E question \in Questions, analyzer_reply \in AnalyzerReplies,
          difficulty \in ConfigDifficulties, state_is_member \in BOOLEAN,
          passed_member \in BOOLEAN :
         LET o == IF probe.fn = ""
                  THEN InterviewOrchestrator(uuid4, difficulty, FALSE,
                                             state_is_member)
                  ELSE probe.orchestrator
             held == IF probe.fn = ""
                     THEN InterviewGraphState(difficulty, passed_member)
                     ELSE probe.workflow
             by_orchestrator ==
                 process_answer_sync(o, question, analyzer_reply,
                                     MalformedReply)
             by_workflow ==
                 workflow_process_answer(held, question, analyzer_reply,
                                         MalformedReply)
         IN  /\ probe.fn = "both" =>
                    /\ ~probe.raised
                    /\ state_is_member = probe.started_as_member
                    /\ passed_member = probe.passed_member
                    /\ Len(o.answers) < MaxSubmits
             /\ probe' = [fn |-> "both",
                          started_as_member |-> state_is_member,
                          passed_member |-> passed_member,
                          orchestrator |-> by_orchestrator.orchestrator,
                          workflow |-> by_workflow.state,
                          raised |-> by_orchestrator.raised
                                         \/ by_workflow.raised]
    /\ last_response' = NoResponse
    /\ UNCHANGED <<orchestrators, sessions, reports, tasks, generate_calls,
                   used>>

SpecRefine == Init /\ [][call_both]_vars

(***************************************************************************)
(* Properties                                                              *)
(***************************************************************************)
\* the place of a state in the fixed order of the interview
OrderOf(state) ==
    CASE state = "INTRO" -> 1
      [] state = "WARMUP" -> 2
      [] state = "CORE_QUESTIONS" -> 3
      [] state = "PRESSURE_ROUND" -> 4
      [] state = "COMMUNICATION_TEST" -> 5
      [] state = "CLOSING" -> 6
      [] state = "FEEDBACK" -> 7

\* this step leaves the state of object r alone or moves it one place on
StaysOrSucceeds(r) ==
    \/ orchestrators'[r].current_state = orchestrators[r].current_state
    \/ OrderOf(orchestrators'[r].current_state) =
           OrderOf(orchestrators[r].current_state) + 1

\* C1: on the deterministic path (use_llm_for_transitions false), every step
\* of every process_answer call leaves current_state of the session unchanged
\* or moves it to the immediate successor in the order INTRO, WARMUP,
\* CORE_QUESTIONS, PRESSURE_ROUND, COMMUNICATION_TEST, CLOSING, FEEDBACK: it
\* never goes back and never skips a state.
C1_DeterministicOrder ==
    [][\A r \in 1..Len(orchestrators) :
          ~orchestrators[r].use_llm_for_transitions => StaysOrSucceeds(r)]_vars

\* a session that went through all the states by the counters
C1_Witness ==
    \E r \in 1..Len(orchestrators) :
        /\ ~orchestrators[r].use_llm_for_transitions
        /\ orchestrators[r].current_state = "FEEDBACK"
        /\ Len(orchestrators[r].answers) >= 9

\* the required count of each state as the claim lists them
RequiredCount(state) ==
    CASE state = "INTRO" -> 1
      [] state = "WARMUP" -> 1
      [] state = "CORE_QUESTIONS" -> 3
      [] state = "PRESSURE_ROUND" -> 2
      [] state = "COMMUNICATION_TEST" -> 1
      [] state = "CLOSING" -> 1

\* C2: for a state INTRO..CLOSING, check_transition_simple returns
\* should_transition true with the successor state exactly when
\* questions_in_state >= the required count (1, 1, 3, 2, 1, 1), and otherwise
\* should_transition false with next_state = current_state; CORE_QUESTIONS
\* with 2 does not fire and with 3 fires to PRESSURE_ROUND.
C2_TransitionByCount ==
    (/\ probe.fn = "check_transition_simple"
     /\ probe.is_member
     /\ probe.state # "FEEDBACK")
    => /\ ~probe.result.raised
       /\ IF probe.count >= RequiredCount(probe.state)
          THEN /\ probe.result.should_transition
               /\ OrderOf(probe.result.next_state) = OrderOf(probe.state) + 1
          ELSE /\ ~probe.result.should_transition
               /\ probe.result.next_state = probe.state
       /\ (probe.state = "CORE_QUESTIONS" /\ probe.count = 2)
              => ~probe.result.should_transition
       /\ (probe.state = "CORE_QUESTIONS" /\ probe.count = 3)
              => /\ probe.result.should_transition
                 /\ probe.result.next_state = "PRESSURE_ROUND"

\* the call at the boundary count of CORE_QUESTIONS
C2_Witness ==
    /\ probe.fn = "check_transition_simple"
    /\ probe.is_member
    /\ probe.state = "CORE_QUESTIONS"
    /\ probe.count = 3
    /\ probe.result.should_transition

\* C3: with use_llm_for_transitions, whatever the session manager replies,
\* every step of process_answer leaves current_state unchanged or moves it to
\* the immediate successor of the previous state.
C3_LLMOrder ==
    [][\A r \in 1..Len(orchestrators) :
          orchestrators[r].use_llm_for_transitions => StaysOrSucceeds(r)]_vars

\* a process_answer call of object r returns 200 in this step
AnswerReturns(r) ==
    \E t \in OverlapTasks :
        /\ tasks[t].ref = r
        /\ tasks[t].pc \in {"adjust", "transition", "question"}
        /\ tasks'[t].pc = "idle"
        /\ last_response'.status = 200

\* C4: is_complete holds exactly in FEEDBACK; the call that reaches FEEDBACK
\* sets overall_score to the mean over all recorded evaluations and returns
\* no next question; every other returning call returns a next question and
\* leaves is_complete false; once is_complete is true it stays true and
\* overall_score never changes again.
C4_Completion ==
    [][\A r \in 1..Len(orchestrators) :
          LET before == orchestrators[r]
              after == orchestrators'[r]
              reaches == ~before.is_complete /\ after.is_complete
          IN  /\ after.is_complete <=> after.current_state = "FEEDBACK"
              /\ reaches =>
                    /\ after.overall_score = calculate_average_score(after)
                    /\ ~last_response'.next_question
              /\ (AnswerReturns(r) /\ ~reaches) =>
                    /\ last_response'.next_question
                    /\ ~after.is_complete
              /\ before.is_complete =>
                    /\ after.is_complete
                    /\ after.overall_score = before.overall_score]_vars

\* C5: once is_complete is true no further answer is processed: a submission
\* is rejected with 400, and no step changes the answer history, the
\* evaluations, the counters, the memory, the difficulty, current_state or
\* overall_score of the session, in whatever order the submissions arrive.
C5_NoAnswerAfterComplete ==
    [][/\ \A r \in 1..Len(orchestrators) :
             orchestrators[r].is_complete =>
                 orchestrators'[r] = orchestrators[r]
       /\ \A t \in OverlapTasks, session_id \in DOMAIN sessions :
             (/\ orchestrators[sessions[session_id]].is_complete
              /\ submit_answer(t, session_id))
             => last_response' = Response("answer", session_id, 400)]_vars

\* C6: a report request for a session that is in the store and is not
\* complete is answered 400, starts no report generation and stores no report.
C6_IncompleteReportRefused ==
    [][\A t \in OverlapTasks, session_id \in DOMAIN sessions :
          (/\ ~orchestrators[sessions[session_id]].is_complete
           /\ get_final_report(t, session_id))
          => /\ last_response' = Response("report", session_id, 400)
             /\ generate_calls' = generate_calls
             /\ reports' = reports
             /\ tasks' = tasks]_vars

\* the refusal, for a session that has recorded an answer
C6_Witness ==
    /\ last_response = Response("report", 1, 400)
    /\ 1 \in DOMAIN sessions
    /\ ~orchestrators[sessions[1]].is_complete
    /\ Len(orchestrators[sessions[1]].answers) >= 1
    /\ generate_calls[1] = 0

\* C7: the report of a completed session is generated once: after the first
\* successful request stored it, the stored report never changes, no
\* generation is called again, and every report request that is answered
\* returns that stored report, also when requests overlap at the generation.
C7_ReportOnce ==
    [][\A session_id \in DOMAIN reports :
          /\ reports'[session_id] = reports[session_id]
          /\ generate_calls'[session_id] = generate_calls[session_id]
          /\ \A t \in OverlapTasks :
                (\/ get_final_report(t, session_id)
                 \/ /\ tasks[t].session_id = session_id
                    /\ generate_returns(t))
                => (last_response'.status = 200
                        => last_response'.report = reports[session_id])]_vars

\* C9: every endpoint answers 404 for an id that is not in the store, never
\* created or deleted; a successful DELETE leaves nothing stored for the id.
C9_NotFound ==
    [][\A session_id \in SessionIds :
          /\ session_id \notin DOMAIN sessions =>
                /\ \A t \in OverlapTasks :
                      /\ submit_answer(t, session_id) =>
                            last_response' = Response("answer", session_id, 404)
                      /\ get_final_report(t, session_id) =>
                            last_response' = Response("report", session_id, 404)
                /\ get_session_status(session_id) =>
                      last_response' = Response("status", session_id, 404)
                /\ delete_session(session_id) =>
                      last_response' = Response("delete", session_id, 404)
          /\ (session_id \in DOMAIN sessions /\ delete_session(session_id)) =>
                /\ session_id \notin DOMAIN sessions'
                /\ session_id \notin DOMAIN reports']_vars

\* C8: the store holds one orchestrator per id: an entry is never replaced,
\* a created orchestrator gets an id that is not in the store, the entry of
\* an id is the orchestrator created with that id, and a request in flight
\* for an id still in the store works on the very object the store holds, so
\* its mutations are what get_session gives afterwards.
C8_OnePerId ==
    [][/\ \A session_id \in DOMAIN sessions \cap DOMAIN sessions' :
             sessions'[session_id] = sessions[session_id]
       /\ \A r \in 1..Len(orchestrators') :
             r > Len(orchestrators) =>
                 orchestrators'[r].session_id \notin DOMAIN sessions
       /\ \A session_id \in DOMAIN sessions' :
             orchestrators'[sessions'[session_id]].session_id = session_id
       /\ \A t \in OverlapTasks :
             (tasks'[t].pc # "idle" /\ tasks'[t].session_id \in DOMAIN sessions')
             => tasks'[t].ref = sessions'[tasks'[t].session_id]]_vars

\* two sessions in the store, the second one mutated by an answer that a
\* later status request sees
C8_Witness ==
    /\ DOMAIN sessions = {1, 2}
    /\ orchestrators[get_session(2)].questions_asked >= 1
    /\ last_response = Response("status", 2, 200)

\* everything the program holds for one session id
SessionView(session_id) ==
    [objects |-> {orchestrators[r] : r \in {q \in 1..Len(orchestrators) :
                      orchestrators[q].session_id = session_id}},
     stored |-> get_session(session_id),
     report |-> get_report(session_id)]

\* the session id of the request this step belongs to: the id of the request
\* whose coroutine moved, or else the id the response of the step names
StepOwner ==
    IF \E t \in OverlapTasks : tasks'[t] # tasks[t]
    THEN LET t == CHOOSE u \in OverlapTasks : tasks'[u] # tasks[u]
         IN  IF tasks[t].pc # "idle" THEN tasks[t].session_id
             ELSE tasks'[t].session_id
    ELSE last_response'.session_id

RECURSIVE AnswersInState(_, _)
AnswersInState(answers, state) ==
    IF answers = <<>> THEN 0
    ELSE AnswersInState(SubSeq(answers, 1, Len(answers) - 1), state)
             + (IF answers[Len(answers)].state = state THEN 1 ELSE 0)

\* the history and the memory of o hold the answer of request task, and the
\* memory covers the whole history
HoldsAnswerOf(o, task) ==
    /\ Len(o.answers) = Len(o.evaluations)
    /\ o.questions_asked = Len(o.evaluations)
    /\ Len(o.memory.asked_questions) = Len(o.evaluations)
    /\ \E i \in 1..Len(o.evaluations) :
           /\ o.answers[i].question = task.question
           /\ o.answers[i].evaluation = o.evaluations[i]
           /\ o.memory.asked_questions[i] = task.question
    /\ o.memory.average_score =
           Round2(SumSeq(EvalTotals(o.evaluations)), 5 * Len(o.evaluations))

\* the step of request t, seen from the position it leaves
PipelineStep(t) ==
    LET task == tasks[t]
        after == tasks'[t]
        o == orchestrators[task.ref]
        o2 == orchestrators'[task.ref]
        failed == after.pc = "idle" /\ last_response'.status = 500
    IN  CASE task.pc = "evaluate" ->
                \/ failed /\ UNCHANGED orchestrators
                \/ /\ o2.answers = Append(o.answers, o2.answers[Len(o2.answers)])
                   /\ o2.answers[Len(o2.answers)].question = task.question
                   /\ o2.memory.asked_questions =
                          Append(o.memory.asked_questions, task.question)
                   /\ HoldsAnswerOf(o2, task)
                   /\ o2.current_difficulty = o.current_difficulty
                   /\ o2.current_state = o.current_state
                   /\ after.pc = IF Len(o2.answers) >= 2 THEN "coach"
                                 ELSE "adjust"
          [] task.pc = "coach" ->
                /\ Len(o.answers) >= 2
                /\ HoldsAnswerOf(o, task)
                /\ UNCHANGED orchestrators
                /\ failed \/ after.pc = "adjust"
          [] task.pc = "adjust" ->
                /\ HoldsAnswerOf(o, task)
                /\ o2.answers = o.answers /\ o2.memory = o.memory
                /\ \/ failed /\ o2.current_state = o.current_state
                   \/ /\ after.pc \in {"question", "idle"}
                      /\ (o2.current_state # o.current_state) =
                             (/\ o.current_state # "FEEDBACK"
                              /\ AnswersInState(o.answers, o.current_state)
                                   >= STATE_QUESTION_LIMITS[o.current_state])
                      /\ (after.pc = "idle") = (o2.current_state = "FEEDBACK")
          [] task.pc = "question" ->
                /\ UNCHANGED orchestrators
                /\ after.pc = "idle"
          [] OTHER -> TRUE

\* C11: every process_answer call runs its steps in the fixed order
\* evaluate, record the answer and the counters, update the memory,
\* communication analysis (only when at least two answers are recorded),
\* difficulty, transition check, transition: the difficulty call and the
\* transition decision for an answer are made from a history, counters and a
\* memory that already hold that answer.
C11_PipelineOrder ==
    [][\A t \in Tasks : tasks'[t] # tasks[t] => PipelineStep(t)]_vars

\* the difficulty engine is being called for the second answer, after the
\* communication analysis
C11_Witness ==
    \E t \in Tasks :
        /\ tasks[t].pc = "adjust"
        /\ Len(orchestrators[tasks[t].ref].evaluations) = 2
        /\ HoldsAnswerOf(orchestrators[tasks[t].ref], tasks[t])

\* the reply text is the JSON object piece, or its first fence opens a block
\* (with or without the json tag) that holds just that object
ObjectReply(response, piece) ==
    /\ piece.kind = "object"
    /\ \/ response = <<piece>>
       \/ \E i \in 1..Len(response) :
             /\ \A j \in 1..(i - 1) : response[j] # Fence
             /\ \/ /\ i + 2 <= Len(response)
                   /\ SubSeq(response, i, i + 2) = <<Fence, piece, Fence>>
                \/ /\ i + 3 <= Len(response)
                   /\ SubSeq(response, i, i + 3)
                          = <<Fence, LanguageTag, piece, Fence>>

\* C12: for every reply text, parsing never raises: a JSON object, raw or
\* inside a markdown fence with or without the json tag, yields that object
\* and any other reply yields the agent's default; the analyzer's evaluate
\* always returns an evaluation, which on a parse failure has all five
\* scores 3 and no issues.
C12_ParseNeverRaises ==
    probe.fn = "evaluate" =>
        /\ ~probe.result.raised
        /\ \A piece \in ReplyPieces :
               ObjectReply(probe.response, piece) => probe.parsed = piece
        /\ (\A piece \in ReplyPieces : ~ObjectReply(probe.response, piece)) =>
               /\ probe.parsed = JsonObject(analyzer_default_response)
               /\ \A key \in ScoreKeys : probe.result.evaluation[key] = 3
               /\ probe.result.evaluation.issues_detected = {}

\* the state the claim gives for a session that has answered k questions
StateAfter(k) ==
    CASE k = 0 -> "INTRO"
      [] k = 1 -> "WARMUP"
      [] k \in 2..4 -> "CORE_QUESTIONS"
      [] k \in 5..6 -> "PRESSURE_ROUND"
      [] k = 7 -> "COMMUNICATION_TEST"
      [] k = 8 -> "CLOSING"
      [] OTHER -> "FEEDBACK"

\* C13: as long as every external call has returned a reply, a session that
\* has answered k questions and has no request in the pipeline is in WARMUP
\* for k = 1, CORE_QUESTIONS for k = 2, 3, 4, PRESSURE_ROUND for k = 5, 6,
\* COMMUNICATION_TEST for k = 7, CLOSING for k = 8, and is complete, in
\* FEEDBACK, exactly for k = 9: the interview only moves forward and finishes
\* with the ninth answer.
C13_Progress ==
    (used.errors = 0 /\ \A t \in OverlapTasks : tasks[t].pc = "idle") =>
        \A r \in 1..Len(orchestrators) :
            LET o == orchestrators[r]
                k == Len(o.answers)
            IN  /\ k <= 9
                /\ o.current_state = StateAfter(k)
                /\ o.is_complete = (k = 9)

\* request t is awaiting an external call of process_answer and this step is
\* the failure of that call
AwaitedCallFails(t) ==
    /\ tasks[t].pc \in {"evaluate", "coach", "adjust", "transition", "question"}
    /\ tasks'[t] # tasks[t]
    /\ used'.errors = used.errors + 1

\* C14: a failing external call during process_answer is answered with a
\* server error, is not retried and no default is put in its place, and the
\* failing step writes nothing to the session: a failure of evaluate, the
\* first step after the request arrived, leaves the whole session as it was,
\* and a failure of any later call leaves the history, the counters and the
\* memory as steps 2 and 3 wrote them.
C14_FailurePropagates ==
    [][\A t \in Tasks :
          /\ AwaitedCallFails(t) =>
                /\ last_response' =
                       Response(tasks[t].endpoint, tasks[t].session_id, 500)
                /\ tasks'[t] = Idle
                /\ UNCHANGED <<orchestrators, sessions, reports>>
                /\ tasks[t].pc # "evaluate" =>
                       HoldsAnswerOf(orchestrators'[tasks[t].ref], tasks[t])
          /\ (tasks[t].pc = "idle" /\ tasks'[t].pc = "evaluate") =>
                UNCHANGED orchestrators]_vars

\* the difficulty call of the first answer failed: the answer is recorded,
\* the state has not moved
C14_Witness ==
    \E r \in 1..Len(orchestrators) :
        /\ used.errors >= 1
        /\ last_response = Response("answer", orchestrators[r].session_id, 500)
        /\ orchestrators[r].state_is_member
        /\ orchestrators[r].current_state = "INTRO"
        /\ Len(orchestrators[r].answers) = 1
        /\ orchestrators[r].questions_per_state["INTRO"] = 1

\* C15: score clamping maps every integer n, negative and above 5 included,
\* to max(1, min(5, n)) and a value that is not a number to exactly 3, so
\* each of the five scores of a recorded evaluation lies in 1..5.
C15_ScoresClamped ==
    probe.fn = "process_answer_sync" =>
        /\ Len(probe.evaluations) = 1
        /\ \A key \in ScoreKeys :
               LET score == probe.reply[key]
                   recorded == probe.evaluations[1][key]
               IN  /\ recorded \in 1..5
                   /\ ~score.numeric => recorded = 3
                   /\ (score.numeric /\ score.val < 1) => recorded = 1
                   /\ (score.numeric /\ score.val > 5) => recorded = 5
                   /\ (score.numeric /\ score.val \in 1..5) =>
                          recorded = score.val

\* an evaluation recorded from a reply with a score above 5 and a score that
\* is not a number
C15_Witness ==
    /\ probe.fn = "process_answer_sync"
    /\ probe.reply.technical_score = Num(MaxScore)
    /\ probe.reply.reasoning_depth = NotANumber
    /\ probe.evaluations[1].technical_score = 5
    /\ probe.evaluations[1].reasoning_depth = 3

\* C16: current_difficulty is an integer in 1..5 at session start and after
\* a process_answer call, for every reply of the difficulty engine.
C16_DifficultyInRange ==
    probe.fn = "process_answer_sync" =>
        /\ probe.started_difficulty \in 1..5
        /\ probe.current_difficulty \in 1..5

\* replies far below 1 and far above 5 were clamped
C16_Witness ==
    /\ probe.fn = "process_answer_sync"
    /\ probe.difficulty_reply.parsed
    /\ probe.difficulty_reply.new_difficulty = Num(0 - MaxScore)
    /\ probe.started_difficulty = 4
    /\ probe.current_difficulty = 1

\* the difficulty engine's reply gives no number: it does not parse, or its
\* new_difficulty is not a number, or it has no new_difficulty
NoNewDifficulty(reply) ==
    ~reply.parsed \/ ~reply.new_difficulty.numeric

\* C17: when the reply's new_difficulty is not a number or is missing, or the
\* reply cannot be parsed, the new difficulty is 3, whatever the current
\* difficulty.
C17_DefaultsToThree ==
    (probe.fn = "process_answer_sync" /\ NoNewDifficulty(probe.difficulty_reply))
        => probe.current_difficulty = 3

\* C17, amended: when the reply cannot be parsed or its new_difficulty is not
\* a number, the new difficulty is 3; when the reply has no new_difficulty,
\* the difficulty stays what it was.
C17_DefaultsToThreeOrCurrent ==
    (probe.fn = "process_answer_sync" /\ NoNewDifficulty(probe.difficulty_reply))
        => probe.current_difficulty =
               IF probe.difficulty_reply.parsed
                  /\ probe.difficulty_reply.new_difficulty = Missing
               THEN probe.started_difficulty
               ELSE 3

\* a reply without new_difficulty left difficulty 5 in place
C17_Witness ==
    /\ probe.fn = "process_answer_sync"
    /\ probe.difficulty_reply.parsed
    /\ probe.difficulty_reply.new_difficulty = Missing
    /\ probe.started_difficulty = 5
    /\ probe.current_difficulty = 5

\* C18: an answer whose five scores are all 5 never causes the difficulty to
\* decrease; in particular a session started at difficulty 3 is not below 3
\* after one such answer.
C18_NoDecreaseAfterAllFives ==
    (/\ probe.fn = "process_answer_sync"
     /\ \A key \in ScoreKeys : probe.evaluations[1][key] = 5)
        => probe.current_difficulty >= probe.started_difficulty

\* C19: in FEEDBACK, whose required count is 0, the transition check never
\* fires: check_transition_simple(FEEDBACK, n) returns should_transition
\* false for every n >= 0.
C19_FeedbackNeverFires ==
    (/\ probe.fn = "check_transition_simple"
     /\ probe.state = "FEEDBACK"
     /\ probe.is_member)
        => ~probe.result.should_transition

\* C19, amended: check_transition_simple(FEEDBACK, n) returns
\* should_transition true with next_state FEEDBACK for every n >= 0, as
\* get_next_state has no state after FEEDBACK: applying it leaves the state
\* in FEEDBACK with its counter 0, and an orchestrator that is in FEEDBACK
\* after step 7, from whichever state, is complete.
C19_FeedbackTransitionsToItself ==
    probe.fn = "check_transition_simple" =>
        /\ (probe.state = "FEEDBACK" /\ probe.is_member) =>
               /\ probe.result.should_transition
               /\ probe.result.next_state = "FEEDBACK"
               /\ probe.after.current_state = "FEEDBACK"
               /\ probe.after.questions_per_state["FEEDBACK"] = 0
        /\ (probe.after.current_state = "FEEDBACK" /\ probe.is_member) =>
               probe.after.is_complete

\* the check was made in FEEDBACK with a counter above 0 and fired
C19_Witness ==
    /\ probe.fn = "check_transition_simple"
    /\ probe.state = "FEEDBACK"
    /\ probe.is_member
    /\ probe.count = 2
    /\ probe.result.should_transition
    /\ probe.after.is_complete

\* what this step does to the counters and the history of object r
CountsOneAnswer(r) ==
    LET o == orchestrators[r]
        o2 == orchestrators'[r]
        recorded == o2.answers[Len(o2.answers)]
    IN  IF Len(o2.answers) # Len(o.answers)
        THEN /\ o2.answers = Append(o.answers, recorded)
             /\ o2.questions_asked = o.questions_asked + 1
             /\ o2.questions_per_state =
                    [o.questions_per_state EXCEPT ![o.current_state] = @ + 1]
             /\ recorded.state = o.current_state
             /\ recorded.difficulty = o.current_difficulty
             /\ o2.current_state = o.current_state
             /\ o2.current_difficulty = o.current_difficulty
        ELSE /\ o2.questions_asked = o.questions_asked
             /\ o2.questions_per_state \in
                    {o.questions_per_state,
                     [o.questions_per_state EXCEPT ![o2.current_state] = 0]}
             /\ o2.current_state # o.current_state =>
                    o2.questions_per_state[o2.current_state] = 0

\* request t is the only one in flight and awaits the evaluation of its
\* answer: until the answer is recorded the session stays as it was when the
\* answer was submitted
KeepsSubmittedState(t) ==
    (/\ tasks[t].pc = "evaluate"
     /\ \A u \in OverlapTasks \ {t} : tasks[u].pc = "idle")
        => \/ orchestrators'[tasks[t].ref] = orchestrators[tasks[t].ref]
           \/ Len(orchestrators'[tasks[t].ref].answers)
                  = Len(orchestrators[tasks[t].ref].answers) + 1

\* C20: each processed answer increases questions_asked by exactly 1 and the
\* counter of the state current when the answer was submitted by exactly 1,
\* and leaves every other counter unchanged at that step; the appended
\* answer carries that state and the difficulty in force before the
\* adjustment; the later steps of the call leave questions_asked alone, and
\* when a transition fires only the new state's counter is set to 0.
C20_CountersFrame ==
    [][/\ \A r \in 1..Len(orchestrators) : CountsOneAnswer(r)
       /\ \A t \in Tasks : KeepsSubmittedState(t)]_vars

\* two answers were processed and the second one moved the session on from
\* WARMUP, where it was counted
C20_Witness ==
    \E r \in 1..Len(orchestrators) :
        LET o == orchestrators[r]
        IN  /\ o.questions_asked = 2
            /\ o.current_state = "CORE_QUESTIONS"
            /\ o.answers[2].state = "WARMUP"
            /\ o.questions_per_state["WARMUP"] = 1
            /\ o.questions_per_state["INTRO"] = 1
            /\ o.questions_per_state["CORE_QUESTIONS"] = 0


C22_PureTransform ==
    probe.fn = "update_simple" =>
        LET existing == 1..Len(probe.called)
            new == probe.heap[probe.result]
        IN  /\ \A i \in existing : probe.heap[i] = probe.called[i]
            /\ probe.result \notin existing
            /\ new.asked_questions \notin existing
            /\ new.weak_areas \notin existing
            /\ new.strong_areas \notin existing
            /\ new.communication_patterns \notin existing
            /\ probe.again = Deref(probe.heap, probe.result)
            /\ \A i \in 1..Len(probe.heap) : probe.after_again[i] = probe.heap[i]

\* the call was given a memory with a weak area and returned one with a
\* further weak area
C22_Witness ==
    /\ probe.fn = "update_simple"
    /\ Len(Deref(probe.called, probe.current_memory).weak_areas) = 1
    /\ Len(Deref(probe.heap, probe.result).weak_areas) = 2

\* C23 as stated: after each memory update memory.average_score is the
\* value calculate_average_score returns for the session.
C23_AverageIsMean ==
    \A r \in 1..Len(orchestrators) :
        LET o == orchestrators[r]
            mean == calculate_average_score(o)
        IN  o.evaluations # <<>> =>
                100 * mean.num = o.memory.average_score * mean.den

\* C23: after each memory update memory.average_score is the mean of
\* average_score over all evaluations so far rounded to two decimals: the
\* multiple of 0.01 nearest to the value calculate_average_score returns
\* for the session, and that value itself whenever it has no more than two
\* decimals.
C23_AverageIsRoundedMean ==
    \A r \in 1..Len(orchestrators) :
        LET o == orchestrators[r]
            mean == calculate_average_score(o)
            off == 100 * mean.num - o.memory.average_score * mean.den
        IN  o.evaluations # <<>> =>
                /\ 2 * off <= mean.den
                /\ 2 * off >= 0 - mean.den

\* three evaluations whose mean has more than two decimals
C23_Witness ==
    \E r \in 1..Len(orchestrators) :
        LET o == orchestrators[r]
            mean == calculate_average_score(o)
        IN  /\ Len(o.evaluations) = 3
            /\ 100 * mean.num # o.memory.average_score * mean.den

\* C24: the trend of the returned memory is decided by the evaluation list
\* alone: stable with fewer than 4 evaluations; with 4 or more, improving
\* exactly when the mean of the last two averages exceeds the mean of the
\* first two by more than 0.3, declining exactly when the mean of the first
\* two exceeds the mean of the last two by more than 0.3, and stable
\* otherwise, a difference of exactly 0.3 included.  The sum of two averages
\* is a fifth of the sum of their totals, so the means differ by more than
\* 0.3 exactly when the sums of the totals differ by more than 3.
C24_TrendRule ==
    probe.fn = "update_simple" =>
        LET totals == EvalTotals(probe.called[probe.all_evaluations])
            n == Len(totals)
            first_sum == totals[1] + totals[2]
            last_sum == totals[n - 1] + totals[n]
            trend == Deref(probe.heap, probe.result).performance_trend
        IN  IF n < 4 THEN trend = "stable"
            ELSE /\ (trend = "improving") = (last_sum - first_sum > 3)
                 /\ (trend = "declining") = (first_sum - last_sum > 3)
                 /\ trend \in {"improving", "declining", "stable"}

\* C25: a memory update changes each communication counter by 0 or 1 and
\* never lowers or resets it: rambling, unclear and verbose rise by 1
\* exactly when that exact tag is among issues_detected, structured exactly
\* when structure_score >= 4, hesitant exactly when confidence_signals <= 2,
\* confident exactly when confidence_signals >= 4.
C25_CountersStep ==
    probe.fn = "update_simple" =>
        LET old == Deref(probe.called, probe.current_memory).communication_patterns
            new == Deref(probe.heap, probe.result).communication_patterns
            e == probe.new_evaluation
            Rises(before, after, condition) ==
                after = before + (IF condition THEN 1 ELSE 0)
        IN  /\ Rises(old.rambling, new.rambling, "rambling" \in e.issues_detected)
            /\ Rises(old.unclear, new.unclear, "unclear" \in e.issues_detected)
            /\ Rises(old.verbose, new.verbose, "verbose" \in e.issues_detected)
            /\ Rises(old.structured, new.structured, e.structure_score >= 4)
            /\ Rises(old.hesitant, new.hesitant, e.confidence_signals <= 2)
            /\ Rises(old.confident, new.confident, e.confidence_signals >= 4)

\* an evaluation with the issues ["rambling"] and structure_score 2 raised
\* rambling from 1 to 2 and left structured at 1
C25_Witness ==
    /\ probe.fn = "update_simple"
    /\ probe.new_evaluation.issues_detected = {"rambling"}
    /\ probe.new_evaluation.structure_score = 2
    /\ Deref(probe.called, probe.current_memory).communication_patterns.rambling = 1
    /\ Deref(probe.called, probe.current_memory).communication_patterns.structured = 1
    /\ Deref(probe.heap, probe.result).communication_patterns.rambling = 2
    /\ Deref(probe.heap, probe.result).communication_patterns.structured = 1

NoDuplicate(list) ==
    \A i, j \in 1..Len(list) : list[i] = list[j] => i = j

\* C26: a memory update appends at most one area tag: the area of the
\* question is appended to weak_areas when the new evaluation's average is
\* strictly below 2.5 and to strong_areas when it is at least 4, in each
\* case only if an area was extracted and the list does not hold it yet, and
\* otherwise both lists are unchanged; so neither list ever holds a
\* duplicate or loses an element.
C26_AreaLists ==
    probe.fn = "update_simple" =>
        LET old == Deref(probe.called, probe.current_memory)
            new == Deref(probe.heap, probe.result)
            area == extract_area_from_question(probe.question)
            total == ScoreTotal(probe.new_evaluation)
        IN  /\ new.weak_areas =
                   IF /\ 2 * total < 25 /\ area # ""
                      /\ ~InSeq(area, old.weak_areas)
                   THEN Append(old.weak_areas, area) ELSE old.weak_areas
            /\ new.strong_areas =
                   IF /\ total >= 20 /\ area # ""
                      /\ ~InSeq(area, old.strong_areas)
                   THEN Append(old.strong_areas, area) ELSE old.strong_areas
            /\ Len(new.weak_areas) + Len(new.strong_areas)
                   <= Len(old.weak_areas) + Len(old.strong_areas) + 1
            /\ NoDuplicate(new.weak_areas)
            /\ NoDuplicate(new.strong_areas)

\* a low-scored answer on an area that is already strong and already weak:
\* the area is in both lists and neither list changed
C26_Witness ==
    /\ probe.fn = "update_simple"
    /\ 2 * ScoreTotal(probe.new_evaluation) < 25
    /\ extract_area_from_question(probe.question) = "Api"
    /\ Deref(probe.called, probe.current_memory).weak_areas = <<"Testing", "Api">>
    /\ Deref(probe.called, probe.current_memory).strong_areas = <<"Api">>
    /\ Deref(probe.heap, probe.result).weak_areas = <<"Testing", "Api">>
    /\ Deref(probe.heap, probe.result).strong_areas = <<"Api">>

\* the items of a list that belong to a company, compared without case
OfCompany(items, key) ==
    {i \in 1..Len(items) : lower(items[i].company) = key}

\* C27: RankerAgent.rank returns its selection in non-increasing score
\* order; given more scored items than top_k it returns exactly top_k
\* items, and no more than 2 of the returned items belong to the same
\* company, compared case-insensitively.
C27_RankTopK ==
    probe.fn = "rank" =>
        /\ \A i, j \in 1..Len(probe.result) :
               i < j => probe.result[i].score >= probe.result[j].score
        /\ Len(probe.scored) > top_k => Len(probe.result) = top_k
        /\ \A company \in Companies :
               Cardinality(OfCompany(probe.result, lower(company))) <= 2

\* C28: no interview phase records more answers than its required count:
\* in every session of the deterministic path, whatever calls ended in an
\* error, for every state s other than FEEDBACK the number of recorded
\* answers whose state is s and the per-state counter of s are at most
\* required(s), and while no call is in the pipeline the counter of the
\* current state is strictly below its required count.
C28_PhaseLimits ==
    \A r \in 1..Len(orchestrators) :
        LET o == orchestrators[r]
        IN  ~o.use_llm_for_transitions =>
                /\ \A state \in InterviewState \ {"FEEDBACK"} :
                       /\ AnswersInState(o.answers, state)
                              <= STATE_QUESTION_LIMITS[state]
                       /\ o.questions_per_state[state]
                              <= STATE_QUESTION_LIMITS[state]
                /\ (/\ \A t \in OverlapTasks : tasks[t].pc = "idle"
                    /\ o.current_state # "FEEDBACK") =>
                       o.questions_per_state[o.current_state]
                           < STATE_QUESTION_LIMITS[o.current_state]

\* C29: with several process_answer calls of one session interleaved at
\* their awaits, on the deterministic path every step still leaves
\* current_state alone or moves it to the immediate successor, a step that
\* moves it out of a state s finds at least required(s) answers counted and
\* recorded while s was current, and a session in FEEDBACK stays in
\* FEEDBACK.
C29_RaceTransitions ==
    [][\A r \in 1..Len(orchestrators) :
          LET o == orchestrators[r]
              after == orchestrators'[r]
          IN  ~o.use_llm_for_transitions =>
                  /\ StaysOrSucceeds(r)
                  /\ after.current_state # o.current_state =>
                         /\ o.questions_per_state[o.current_state]
                                >= STATE_QUESTION_LIMITS[o.current_state]
                         /\ AnswersInState(o.answers, o.current_state)
                                >= STATE_QUESTION_LIMITS[o.current_state]
                  /\ o.current_state = "FEEDBACK" =>
                         after.current_state = "FEEDBACK"]_vars

\* a call that was suspended while another call completed the interview has
\* resumed and returned: the session holds a tenth answer and is in FEEDBACK
C29_Witness ==
    \E r \in 1..Len(orchestrators) :
        /\ ~orchestrators[r].use_llm_for_transitions
        /\ orchestrators[r].current_state = "FEEDBACK"
        /\ Len(orchestrators[r].answers) = 10
        /\ \A t \in RaceTasks : tasks[t].pc = "idle"

\* C30: the graph workflow and the orchestrator implement the same state
\* machine: fed the same answers and evaluations from the same initial
\* state, InterviewWorkflow.process_answer and process_answer_sync leave
\* the same current_state, questions_asked and is_complete after every
\* answer.
C30_SameMachine ==
    probe.fn = "both" =>
        /\ probe.orchestrator.current_state = probe.workflow.current_state
        /\ probe.orchestrator.questions_asked = probe.workflow.questions_asked
        /\ probe.orchestrator.is_complete = probe.workflow.is_complete
====
